---- MODULE Spec2Model ----
(***************************************************************************)
(* MCPedia: the SQLite-backed entry store (package db), its write lock,    *)
(* and the MCP tool handlers and CLI commands that call it.                *)
(*                                                                         *)
(* Strings are sequences of tokens: a text column is the sequence of its   *)
(* words, a tag name the sequence of its characters, "" is << >>.          *)
(* Tables are functions from rowid to row; a transaction works on a copy   *)
(* of the tables and the copy is installed on commit only.                 *)
(***************************************************************************)
EXTENDS Integers, Sequences, FiniteSets, TLC

VARIABLES
    entries,      \* table entries: id -> row
    entries_fts,  \* table entries_fts: rowid -> [title, description, content]
    entry_stats,  \* table entry_stats: entry_id -> counters and timestamps
    tags,         \* table tags: set of names
    entry_tags,   \* table entry_tags: set of <<entry_id, tag name>>
    seq,          \* sqlite_sequence of entries (AUTOINCREMENT high-water mark)
    lock,         \* table lock, row id = 1: [active, token]
    now,          \* wall clock, in seconds (datetime('now') / time.Now())
    last,         \* the last call: what was called and what it returned
    nupd,         \* history: id -> number of UpdateEntry calls that returned nil
    steps,        \* number of calls made so far
    txs,          \* per client: the update_entry call in flight, its position and snapshot
    writer,       \* the client whose transaction holds SQLite's write lock, or 0
    lockers,      \* per client: the lock call in flight, or the one that last succeeded
    Token,        \* Server.Token: the configured shared secret, "" when none
    sessions,     \* Server.sessions: the session identifiers stored so far
    rand,         \* number of identifiers drawn from crypto/rand so far
    http,         \* the last HTTP exchange: the request and what was written back
    walk          \* a client paging through resources/list: its token and what it was given

vars == <<entries, entries_fts, entry_stats, tags, entry_tags, seq, lock, now, last, nupd, steps,
          txs, writer, lockers, Token, sessions, rand, http, walk>>

HttpVars == <<Token, sessions, rand, http, walk>>

----------------------------------------------------------------------------
(* Bounds of the model *)

MaxSteps == 4

MaxClock == 2

\* Calls per behaviour of SpecQueries.
MaxQueries == 1

\* HTTP requests per behaviour of SpecRpc.
MaxRequests == 2

\* Entries in the largest store of SpecPages.
MaxEntries == 105

\* Tool calls and lock commands per behaviour of SpecWriters.
MaxCalls == 3

(* Program constants *)

MaxContentLen == 32768

DefaultSearchLimit == 10

DefaultContextLimit == 20

MaxLimit == 50

resourcesPerPage == 50

----------------------------------------------------------------------------
(* Strings *)

EMPTY == << >>

NULL == <<"NULL">>

\* Byte length of one token; "x32769" is strings.Repeat("x", 32769) and
\* "e20000" is 20000 times a two-byte character (U+00E9).
TokenLen(w) == IF w = "x32769" THEN 32769 ELSE IF w = "e20000" THEN 40000 ELSE 1

RECURSIVE ByteLen(_)
ByteLen(s) == IF s = EMPTY THEN 0 ELSE TokenLen(Head(s)) + ByteLen(Tail(s))

\* Number of characters of one token.
TokenChars(w) == IF w = "x32769" THEN 32769 ELSE IF w = "e20000" THEN 20000 ELSE 1

\* SQLite length(X) of a TEXT value: its number of characters, not of bytes.
RECURSIVE CharLen(_)
CharLen(s) == IF s = EMPTY THEN 0 ELSE TokenChars(Head(s)) + CharLen(Tail(s))

\* The terms the full-text tokenizer extracts from a text.
Terms(s) == {s[i] : i \in 1..Len(s)}

RECURSIVE TrimLeft(_)
TrimLeft(s) == IF s # EMPTY /\ Head(s) = " " THEN TrimLeft(Tail(s)) ELSE s

RECURSIVE TrimRight(_)
TrimRight(s) == IF s # EMPTY /\ s[Len(s)] = " " THEN TrimRight(SubSeq(s, 1, Len(s) - 1)) ELSE s

TrimSpace(s) == TrimRight(TrimLeft(s))

defaultStr(s, def) == IF s = EMPTY THEN def ELSE s

hashToken(token) == <<"sha256">> \o token

----------------------------------------------------------------------------
(* Tables *)

Tables == [entries |-> entries, entries_fts |-> entries_fts, entry_stats |-> entry_stats,
           tags |-> tags, entry_tags |-> entry_tags, seq |-> seq]

EmptyTables == [entries |-> << >>, entries_fts |-> << >>, entry_stats |-> << >>,
                tags |-> {}, entry_tags |-> {}, seq |-> 0]

Put(f, k, v) == [x \in DOMAIN f \cup {k} |-> IF x = k THEN v ELSE f[x]]

Drop(f, k) == [x \in DOMAIN f \ {k} |-> f[x]]

\* SELECT id FROM entries WHERE slug = ?   (the set holds at most one id)
IdsOfSlug(t, slug) == {i \in DOMAIN t.entries : t.entries[i].slug = slug}

IdOfSlug(t, slug) == CHOOSE i \in IdsOfSlug(t, slug) : TRUE

----------------------------------------------------------------------------
(* Rows *)

Columns == {"title", "description", "content", "kind", "language", "domain", "project"}

NullTime == -1

\* INSERT INTO entry_stats (entry_id) VALUES (?): every other column takes its default.
ZeroStats == [reads |-> 0, searches |-> 0, updates |-> 0,
              last_read_at |-> NullTime, last_search_at |-> NullTime, last_update_at |-> NullTime]

NewRow_KindAsGiven(e, clock) ==
    [slug |-> e.slug, title |-> e.title, description |-> e.description, content |-> e.content,
     kind |-> e.kind, language |-> e.language, domain |-> e.domain,
     project |-> e.project, version |-> 1, created_at |-> clock, updated_at |-> clock]

\* INSERT INTO entries: version and both timestamps take their defaults.
NewRow(e, clock) ==
    [slug |-> e.slug, title |-> e.title, description |-> e.description, content |-> e.content,
     kind |-> defaultStr(e.kind, <<"skill">>), language |-> e.language, domain |-> e.domain,
     project |-> e.project, version |-> 1, created_at |-> clock, updated_at |-> clock]

FtsRow(row) == [title |-> row.title, description |-> row.description, content |-> row.content]

\* The constraint of table entries that a row breaks, or "ok" (NOT NULL and CHECK before UNIQUE).
RowConstraint(row) ==
    IF \E c \in Columns : row[c] = NULL THEN "Validation"
    ELSE IF CharLen(row.content) > MaxContentLen THEN "Validation"
    ELSE "ok"

InsertConstraint_NoUnique(t, row) == RowConstraint(row)

InsertConstraint(t, row) ==
    IF RowConstraint(row) # "ok" THEN RowConstraint(row)
    ELSE IF IdsOfSlug(t, row.slug) # {} THEN "DuplicateSlug"
    ELSE "ok"

----------------------------------------------------------------------------
(* Tags *)

RECURSIVE AddTags(_, _, _)
AddTags(t, id, tagList) ==
    IF tagList = << >> THEN t
    ELSE LET tagName == TrimSpace(Head(tagList)) IN
         IF tagName = EMPTY THEN AddTags(t, id, Tail(tagList))
         ELSE AddTags([t EXCEPT !.tags = @ \cup {tagName},
                                !.entry_tags = @ \cup {<<id, tagName>>}], id, Tail(tagList))

setTags_Additive(t, id, tagList) == AddTags(t, id, tagList)

\* setTags: remove every association of the entry, then add the given names.
setTags(t, id, tagList) ==
    AddTags([t EXCEPT !.entry_tags = {p \in @ : p[1] # id}], id, tagList)

\* getTagsForEntry, as a set (the code returns it ordered by name).
getTagsForEntry(t, id) == {p[2] : p \in {q \in t.entry_tags : q[1] = id}}

----------------------------------------------------------------------------
(* Transactions of package db.  Each returns the tables it leaves, the     *)
(* error it returns ("ok" for nil) and what it hands back to the caller.   *)
(* fault names the statement at which the storage engine fails, if any.    *)

Done(t, err, res) == [t |-> t, err |-> err, res |-> res]

\* What CreateEntry leaves in *e: ID, then Version/CreatedAt/UpdatedAt once read back.
Created(id, row, readBack) ==
    [id |-> id, version |-> IF readBack THEN row.version ELSE 0,
     created_at |-> IF readBack THEN row.created_at ELSE NullTime,
     updated_at |-> IF readBack THEN row.updated_at ELSE NullTime]

CreateEntry(t, e, clock, fault) ==
    LET id  == t.seq + 1
        row == NewRow(e, clock)
        t1  == [t EXCEPT !.entries = Put(@, id, row), !.seq = id]
        t2  == [t1 EXCEPT !.entries_fts = Put(@, id, FtsRow(e))]
        t3  == [t2 EXCEPT !.entry_stats = Put(@, id, ZeroStats)]
        t4  == setTags(t3, id, e.tags)
    IN  IF fault = "begin" THEN Done(t, "Internal", EMPTY)
        ELSE IF InsertConstraint(t, row) # "ok" THEN Done(t, InsertConstraint(t, row), EMPTY)
        ELSE IF fault = "insert" THEN Done(t, "Internal", EMPTY)
        ELSE IF fault = "fts" THEN Done(t, "Internal", EMPTY)
        ELSE IF fault = "stats" THEN Done(t, "Internal", EMPTY)
        ELSE IF fault = "tags" THEN Done(t, "Internal", EMPTY)
        ELSE IF fault = "commit" THEN Done(t, "Internal", EMPTY)
        ELSE IF fault = "readback" THEN Done(t4, "Internal", Created(id, row, FALSE))
        ELSE Done(t4, "ok", Created(id, row, TRUE))

\* UPDATE entry_stats SET <counter> = <counter> + 1, <stamp> = ? WHERE entry_id = ?
BumpStats_Twice(t, id, counter, stamp, clock) ==
    IF id \in DOMAIN t.entry_stats
    THEN [t EXCEPT !.entry_stats[id] = [@ EXCEPT ![counter] = @ + 2, ![stamp] = clock]]
    ELSE t

BumpStats(t, id, counter, stamp, clock) ==
    IF id \in DOMAIN t.entry_stats
    THEN [t EXCEPT !.entry_stats[id] = [@ EXCEPT ![counter] = @ + 1, ![stamp] = clock]]
    ELSE t

\* The entry GetEntry scans, with its tags.
EntryOf(t, id) == [id |-> id, row |-> t.entries[id], tags |-> getTagsForEntry(t, id)]

GetEntry(t, slug, clock, fault) ==
    IF IdsOfSlug(t, slug) = {} THEN Done(t, "NotFound", EMPTY)
    ELSE LET id == IdOfSlug(t, slug) IN
         IF fault = "tags" THEN Done(t, "Internal", EMPTY)
         ELSE IF fault = "stats" THEN Done(t, "ok", EntryOf(t, id))
         ELSE Done(BumpStats(t, id, "reads", "last_read_at", clock), "ok", EntryOf(t, id))

UpdatedRow_Replaces(old, fields, clock) ==
    [c \in DOMAIN old |->
        IF c \in Columns THEN (IF c \in DOMAIN fields THEN fields[c] ELSE EMPTY)
        ELSE IF c = "version" THEN old.version + 1
        ELSE IF c = "updated_at" THEN clock
        ELSE old[c]]

\* UPDATE entries SET <named columns>, version = version + 1, updated_at = datetime('now')
UpdatedRow(old, fields, clock) ==
    [c \in DOMAIN old |->
        IF c \in Columns /\ c \in DOMAIN fields THEN fields[c]
        ELSE IF c = "version" THEN old.version + 1
        ELSE IF c = "updated_at" THEN clock
        ELSE old[c]]

SyncFts_Skipped(t, id) == t

\* Sync FTS: delete the old row, re-insert with the current values from entries.
SyncFts(t, id) ==
    LET t2 == [t EXCEPT !.entries_fts = Drop(@, id)] IN
    [t2 EXCEPT !.entries_fts = Put(@, id, FtsRow(t.entries[id]))]

UpdateEntry_Unrolled(t, slug, fields, clock, fault) ==
    IF fault = "begin" THEN Done(t, "Internal", EMPTY)
    ELSE IF IdsOfSlug(t, slug) = {} THEN Done(t, "NotFound", EMPTY)
    ELSE LET id  == IdOfSlug(t, slug)
             row == UpdatedRow(t.entries[id], fields, clock)
             t1  == [t EXCEPT !.entries[id] = row]
             t3  == SyncFts(t1, id)
             t4  == IF "tags" \in DOMAIN fields THEN setTags(t3, id, fields["tags"]) ELSE t3
             t5  == BumpStats(t4, id, "updates", "last_update_at", clock)
         IN  IF RowConstraint(row) # "ok" THEN Done(t, RowConstraint(row), EMPTY)
             ELSE IF fault = "update" THEN Done(t, "Internal", EMPTY)
             ELSE IF fault = "fts" THEN Done(t1, "Internal", EMPTY)
             ELSE IF fault = "tags" /\ "tags" \in DOMAIN fields THEN Done(t3, "Internal", EMPTY)
             ELSE IF fault = "stats" THEN Done(t4, "Internal", EMPTY)
             ELSE IF fault = "commit" THEN Done(t, "Internal", EMPTY)
             ELSE Done(t5, "ok", id)

UpdateEntry(t, slug, fields, clock, fault) ==
    IF fault = "begin" THEN Done(t, "Internal", EMPTY)
    ELSE IF IdsOfSlug(t, slug) = {} THEN Done(t, "NotFound", EMPTY)
    ELSE LET id  == IdOfSlug(t, slug)
             row == UpdatedRow(t.entries[id], fields, clock)
             t1  == [t EXCEPT !.entries[id] = row]
             t3  == SyncFts(t1, id)
             t4  == IF "tags" \in DOMAIN fields THEN setTags(t3, id, fields["tags"]) ELSE t3
             t5  == BumpStats(t4, id, "updates", "last_update_at", clock)
         IN  IF RowConstraint(row) # "ok" THEN Done(t, RowConstraint(row), EMPTY)
             ELSE IF fault = "update" THEN Done(t, "Internal", EMPTY)
             ELSE IF fault = "fts" THEN Done(t, "Internal", EMPTY)
             ELSE IF fault = "tags" /\ "tags" \in DOMAIN fields THEN Done(t, "Internal", EMPTY)
             ELSE IF fault = "stats" THEN Done(t, "Internal", EMPTY)
             ELSE IF fault = "commit" THEN Done(t, "Internal", EMPTY)
             ELSE Done(t5, "ok", id)

\* Open runs PRAGMA foreign_keys=ON once, through the pool: it configures the
\* connection that served that statement.  The pool holds up to 25 connections
\* and retires each after 5 minutes; a connection it opens later was never
\* configured and keeps SQLite's default, foreign keys off.
ForeignKeys == {TRUE, FALSE}

\* DELETE FROM entries WHERE id = ?.  ON DELETE CASCADE on entry_tags and
\* entry_stats acts only when the connection enforces foreign keys.
DeleteRow(t, id, foreign_keys) ==
    IF foreign_keys
    THEN [t EXCEPT !.entries = Drop(@, id),
                   !.entry_tags = {p \in @ : p[1] # id},
                   !.entry_stats = Drop(@, id)]
    ELSE [t EXCEPT !.entries = Drop(@, id)]

DeleteEntry(t, slug, foreign_keys, fault) ==
    IF fault = "begin" THEN Done(t, "Internal", EMPTY)
    ELSE IF IdsOfSlug(t, slug) = {} THEN Done(t, "NotFound", EMPTY)
    ELSE LET id == IdOfSlug(t, slug)
             t1 == [t EXCEPT !.entries_fts = Drop(@, id)]
             t2 == DeleteRow(t1, id, foreign_keys)
         IN  IF fault = "fts" THEN Done(t, "Internal", EMPTY)
             ELSE IF fault = "delete" THEN Done(t, "Internal", EMPTY)
             ELSE IF fault = "commit" THEN Done(t, "Internal", EMPTY)
             ELSE Done(t2, "ok", id)

----------------------------------------------------------------------------
(* Queries of package db *)

NoFilter == [kind |-> EMPTY, language |-> EMPTY, domain |-> EMPTY, project |-> EMPTY,
             tag |-> EMPTY, tags |-> << >>]

\* The WHERE clauses on kind, language, domain and project.
MatchesColumns(t, id, f) ==
    /\ f.kind = EMPTY \/ t.entries[id].kind = f.kind
    /\ f.language = EMPTY \/ t.entries[id].language = f.language
    /\ f.domain = EMPTY \/ t.entries[id].domain = f.domain
    /\ f.project = EMPTY \/ t.entries[id].project = f.project

\* JOIN entry_tags et ... JOIN tags t ... WHERE t.name = ?
HasTag(t, id, name) == name \in t.tags /\ <<id, name>> \in t.entry_tags

\* Byte order of tokens, and of strings (ORDER BY title).
Alphabet == <<" ", "animal", "e", "echidna", "guide", "monotreme", "r", "short", "updated", "x32769">>

TokenRank(w) == CHOOSE i \in 1..Len(Alphabet) : Alphabet[i] = w

RECURSIVE StrLess(_, _)
StrLess(a, b) ==
    IF b = EMPTY THEN FALSE
    ELSE IF a = EMPTY THEN TRUE
    ELSE IF Head(a) = Head(b) THEN StrLess(Tail(a), Tail(b))
    ELSE TokenRank(Head(a)) < TokenRank(Head(b))

Min(a, b) == IF a < b THEN a ELSE b

\* The pages "ORDER BY e.title LIMIT n" can return from the matching rows
\* (rows of equal title come in an order the engine chooses).
TitlePages(t, ids, n) ==
    {page \in SUBSET ids :
        /\ Cardinality(page) = Min(n, Cardinality(ids))
        /\ \A a \in page, b \in ids \ page : ~StrLess(t.entries[b].title, t.entries[a].title)}

\* The pages "ORDER BY rank LIMIT n" can return (rank is the engine's relevance score).
RankPages(ids, n) == {page \in SUBSET ids : Cardinality(page) = Min(n, Cardinality(ids))}

ListEntries(t, f) ==
    {id \in DOMAIN t.entries : MatchesColumns(t, id, f) /\ (f.tag = EMPTY \/ HasTag(t, id, f.tag))}

SearchLimit(limit) == IF limit <= 0 \/ limit > MaxLimit THEN DefaultSearchLimit ELSE limit

ContextLimit(limit) == IF limit <= 0 \/ limit > MaxLimit THEN DefaultContextLimit ELSE limit

\* entries_fts MATCH ?: every term of the query occurs in the indexed row.
FtsMatch(row, query) ==
    Terms(query) \subseteq (Terms(row.title) \cup Terms(row.description) \cup Terms(row.content))

\* FROM entries_fts fts JOIN entries e ON e.id = fts.rowid WHERE fts MATCH ? AND <filters>
SearchMatches(t, query, f) ==
    {id \in DOMAIN t.entries_fts \cap DOMAIN t.entries :
        /\ FtsMatch(t.entries_fts[id], query)
        /\ MatchesColumns(t, id, f)
        /\ f.tag = EMPTY \/ HasTag(t, id, f.tag)}

RECURSIVE BumpAll(_, _, _, _, _)
BumpAll(t, ids, counter, stamp, clock) ==
    IF ids = {} THEN t
    ELSE LET id == CHOOSE i \in ids : TRUE IN
         BumpAll(BumpStats(t, id, counter, stamp, clock), ids \ {id}, counter, stamp, clock)

\* SearchEntries for the page of rows the engine returns.
SearchEntries(t, query, f, limit, page, clock) ==
    IF query = EMPTY THEN Done(t, "Internal", {})
    ELSE Done(BumpAll(t, page, "searches", "last_search_at", clock), "ok", page)

ContextMatches_AnyTag(t, f) ==
    {id \in DOMAIN t.entries :
        /\ MatchesColumns(t, id, f)
        /\ IF Len(f.tags) > 0 THEN \E i \in 1..Len(f.tags) : HasTag(t, id, f.tags[i])
           ELSE f.tag = EMPTY \/ HasTag(t, id, f.tag)}

ContextMatches(t, f) ==
    {id \in DOMAIN t.entries :
        /\ MatchesColumns(t, id, f)
        /\ IF Len(f.tags) > 0 THEN \A i \in 1..Len(f.tags) : HasTag(t, id, f.tags[i])
           ELSE f.tag = EMPTY \/ HasTag(t, id, f.tag)}

\* GetEntriesByContext for the page of rows the engine returns.
GetEntriesByContext(t, f, limit, page, clock) ==
    Done(BumpAll(t, page, "reads", "last_read_at", clock), "ok", {EntryOf(t, id) : id \in page})

\* SELECT t.name, COUNT(et.entry_id) FROM tags t JOIN entry_tags et ... GROUP BY t.id
ListTags(t) ==
    {[name |-> n, count |-> Cardinality({p \in t.entry_tags : p[2] = n})] :
        n \in {m \in t.tags : \E p \in t.entry_tags : p[2] = m}}

\* ORDER BY cnt DESC, t.name
TagBefore(a, b) == a.count > b.count \/ (a.count = b.count /\ StrLess(a.name, b.name))

RECURSIVE OrderTags(_)
OrderTags(rows) ==
    IF rows = {} THEN << >>
    ELSE LET first == CHOOSE a \in rows : \A b \in rows \ {a} : TagBefore(a, b) IN
         <<first>> \o OrderTags(rows \ {first})

\* FROM entry_stats es JOIN entries e ON e.id = es.entry_id WHERE e.slug = ?
GetStats(t, slug) ==
    LET ids == {i \in IdsOfSlug(t, slug) : i \in DOMAIN t.entry_stats} IN
    IF ids = {} THEN Done(t, "NotFound", EMPTY)
    ELSE Done(t, "ok", t.entry_stats[CHOOSE i \in ids : TRUE])

----------------------------------------------------------------------------
(* Write lock *)

IsLocked == lock.active = 1

LockResult_Overwrites(token) ==
    IF token = EMPTY THEN [err |-> "Validation", lock |-> lock]
    ELSE [err |-> "ok", lock |-> [active |-> 1, token |-> hashToken(token)]]

\* DB.Lock: the error it returns and the lock row it leaves.
LockResult(token) ==
    IF token = EMPTY THEN [err |-> "Validation", lock |-> lock]
    ELSE IF IsLocked THEN [err |-> "AlreadyLocked", lock |-> lock]
    ELSE [err |-> "ok", lock |-> [active |-> 1, token |-> hashToken(token)]]

UnlockResult_AnyToken(token) ==
    IF token = EMPTY THEN [err |-> "Validation", lock |-> lock]
    ELSE IF ~IsLocked THEN [err |-> "NotLocked", lock |-> lock]
    ELSE [err |-> "ok", lock |-> [active |-> 0, token |-> EMPTY]]

\* DB.Unlock: the error it returns and the lock row it leaves.
UnlockResult(token) ==
    IF token = EMPTY THEN [err |-> "Validation", lock |-> lock]
    ELSE IF ~IsLocked THEN [err |-> "NotLocked", lock |-> lock]
    ELSE IF lock.token # hashToken(token) THEN [err |-> "InvalidToken", lock |-> lock]
    ELSE [err |-> "ok", lock |-> [active |-> 0, token |-> EMPTY]]

----------------------------------------------------------------------------
(* MCP tool handlers (package mcp) *)

checkLock_Skipped == "ok"

checkLock == IF IsLocked THEN "Locked" ELSE "ok"

toolCreateEntry(e, fault) ==
    IF checkLock # "ok" THEN Done(Tables, checkLock, EMPTY)
    ELSE IF e.slug = EMPTY \/ e.title = EMPTY \/ e.content = EMPTY
         THEN Done(Tables, "Validation", EMPTY)
    ELSE CreateEntry(Tables, e, now, fault)

toolUpdateEntry(slug, fields, fault) ==
    IF checkLock # "ok" THEN Done(Tables, checkLock, EMPTY)
    ELSE IF slug = EMPTY THEN Done(Tables, "Validation", EMPTY)
    ELSE LET u == UpdateEntry(Tables, slug, fields, now, fault) IN
         IF u.err # "ok" THEN u ELSE GetEntry(u.t, slug, now, "none")

toolDeleteEntry_Unchecked(slug, foreign_keys, fault) ==
    IF slug = EMPTY THEN Done(Tables, "Validation", EMPTY)
    ELSE DeleteEntry(Tables, slug, foreign_keys, fault)

toolDeleteEntry(slug, foreign_keys, fault) ==
    IF checkLock # "ok" THEN Done(Tables, checkLock, EMPTY)
    ELSE IF slug = EMPTY THEN Done(Tables, "Validation", EMPTY)
    ELSE DeleteEntry(Tables, slug, foreign_keys, fault)

toolGetEntry_Gated(slug, fault) ==
    IF checkLock # "ok" THEN Done(Tables, checkLock, EMPTY)
    ELSE IF slug = EMPTY THEN Done(Tables, "Validation", EMPTY)
    ELSE GetEntry(Tables, slug, now, fault)

toolGetEntry(slug, fault) ==
    IF slug = EMPTY THEN Done(Tables, "Validation", EMPTY)
    ELSE GetEntry(Tables, slug, now, fault)

toolSearchEntries(query, f, limit, page) ==
    IF query = EMPTY THEN Done(Tables, "Validation", {})
    ELSE SearchEntries(Tables, query, [f EXCEPT !.tags = << >>], limit, page, now)

toolGetEntriesByContext(f, limit, page) ==
    GetEntriesByContext(Tables, [f EXCEPT !.tag = EMPTY], limit, page, now)

toolListEntries(f) ==
    Done(Tables, "ok", ListEntries(Tables, [f EXCEPT !.tag = EMPTY, !.tags = << >>]))

toolListTags == Done(Tables, "ok", OrderTags(ListTags(Tables)))

----------------------------------------------------------------------------
(* CLI commands (package main) *)

RECURSIVE parseTags(_)
parseTags(parts) ==
    IF parts = << >> THEN << >>
    ELSE LET p == TrimSpace(Head(parts)) IN
         IF p # EMPTY THEN <<p>> \o parseTags(Tail(parts)) ELSE parseTags(Tail(parts))

cmdAdd(e) ==
    IF e.slug = EMPTY \/ e.title = EMPTY THEN Done(Tables, "Validation", EMPTY)
    ELSE CreateEntry(Tables, [e EXCEPT !.kind = defaultStr(@, <<"skill">>), !.tags = parseTags(@)],
                     now, "none")

cmdEdit(slug, fields) ==
    LET flags == [k \in DOMAIN fields |-> IF k = "tags" THEN parseTags(fields[k]) ELSE fields[k]] IN
    IF slug = EMPTY THEN Done(Tables, "Validation", EMPTY)
    ELSE IF DOMAIN fields = {} THEN Done(Tables, "Validation", EMPTY)
    ELSE LET u == UpdateEntry(Tables, slug, flags, now, "none") IN
         IF u.err # "ok" THEN u ELSE GetEntry(u.t, slug, now, "none")

----------------------------------------------------------------------------
(* Inputs *)

Tokens == {EMPTY, <<"secret">>, <<"wrong">>}

Slugs == {<<"a">>, <<"b">>}

EntryA == [slug |-> <<"a">>, title |-> <<"animal", "guide">>, description |-> EMPTY,
           content |-> <<"monotreme">>, kind |-> EMPTY, language |-> <<"go">>,
           domain |-> EMPTY, project |-> EMPTY,
           tags |-> << <<"e">>, <<" ">>, <<" ", "e", " ">> >>]

EntryB == [slug |-> <<"b">>, title |-> <<"guide">>, description |-> <<"short">>,
           content |-> <<"echidna">>, kind |-> <<"rule">>, language |-> <<"python">>,
           domain |-> EMPTY, project |-> EMPTY,
           tags |-> << <<"e">>, <<"r">> >>]

EntryInputs ==
    << EntryA,
       EntryB,
       [EntryA EXCEPT !.title = EMPTY],
       [EntryB EXCEPT !.content = <<"x32769">>],
       [EntryB EXCEPT !.content = EMPTY],
       [EntryB EXCEPT !.content = <<"e20000">>] >>

FieldInputs ==
    << [k \in {} |-> EMPTY],
       [content |-> <<"echidna">>],
       [title |-> <<"updated">>, kind |-> <<"guide">>],
       [tags |-> << <<"r">>, <<" ">>, <<" ", "r">> >>],
       [content |-> <<"x32769">>],
       [title |-> EMPTY, kind |-> <<"banana">>] >>

Queries == {<<"monotreme">>, <<"echidna">>, <<"animal", "guide">>}

Filters == {NoFilter, [NoFilter EXCEPT !.language = <<"go">>],
            [NoFilter EXCEPT !.tag = <<"e">>, !.tags = << <<"e">>, <<"r">> >>]}

Limits == {0, 1}

CreateFaults == {"none", "tags", "readback"}

UpdateFaults == {"none", "stats"}

DeleteFaults == {"none", "delete"}

GetFaults == {"none", "stats"}

\* Faults are injected into the calls whose arguments pass every check.
CreateFaultsOf(i) == IF i \in {1, 2} THEN CreateFaults ELSE {"none"}

UpdateFaultsOf(i) == IF i \in {1, 2, 4} THEN UpdateFaults ELSE {"none"}

----------------------------------------------------------------------------
(* Actions: one call each *)

Call(op, caller, slug, args, err, res) ==
    [op |-> op, caller |-> caller, slug |-> slug, args |-> args, err |-> err, res |-> res]

Install(t) ==
    /\ entries' = t.entries
    /\ entries_fts' = t.entries_fts
    /\ entry_stats' = t.entry_stats
    /\ tags' = t.tags
    /\ entry_tags' = t.entry_tags
    /\ seq' = t.seq

\* The history of successful updates follows the rows of table entries.
Updates(t, updated) ==
    [id \in DOMAIN t.entries |->
        IF id \in DOMAIN nupd THEN nupd[id] + (IF id \in updated THEN 1 ELSE 0) ELSE 0]

Clients == {1, 2}

IdleTx == [pc |-> "idle", slug |-> EMPTY, fields |-> [k \in {} |-> EMPTY], t |-> EmptyTables]

IdleLocker == [pc |-> "idle", token |-> EMPTY]

\* A server with no shared secret that has served no request.
\* A client that has not asked for a page yet.
NoWalk == [cursor |-> EMPTY, pages |-> << >>, seen |-> << >>, done |-> FALSE]

NoHttp ==
    /\ Token = EMPTY
    /\ sessions = {}
    /\ rand = 0
    /\ http = [req |-> EMPTY, resp |-> EMPTY]
    /\ walk = NoWalk

Init ==
    /\ entries = << >>
    /\ entries_fts = << >>
    /\ entry_stats = << >>
    /\ tags = {}
    /\ entry_tags = {}
    /\ seq = 0
    /\ lock = [active |-> 0, token |-> EMPTY]
    /\ now = 0
    /\ last = Call("open", "db", EMPTY, EMPTY, "ok", EMPTY)
    /\ nupd = << >>
    /\ steps = 0
    /\ txs = [c \in Clients |-> IdleTx]
    /\ writer = 0
    /\ lockers = [c \in Clients |-> IdleLocker]
    /\ NoHttp

Tick ==
    /\ steps < MaxSteps
    /\ now < MaxClock
    /\ now' = now + 1
    /\ last' = Call("tick", "clock", EMPTY, EMPTY, "ok", EMPTY)
    /\ steps' = steps + 1
    /\ UNCHANGED <<entries, entries_fts, entry_stats, tags, entry_tags, seq, lock, nupd, txs, writer, lockers>>
    /\ UNCHANGED HttpVars

Lock ==
    /\ steps < MaxSteps
    /\ \E token \in Tokens :
          LET r == LockResult(token) IN
          /\ lock' = r.lock
          /\ last' = Call("lock", "cli", EMPTY, token, r.err, EMPTY)
    /\ steps' = steps + 1
    /\ UNCHANGED <<entries, entries_fts, entry_stats, tags, entry_tags, seq, now, nupd, txs, writer, lockers>>
    /\ UNCHANGED HttpVars

Unlock ==
    /\ steps < MaxSteps
    /\ \E token \in Tokens :
          LET r == UnlockResult(token) IN
          /\ lock' = r.lock
          /\ last' = Call("unlock", "cli", EMPTY, token, r.err, EMPTY)
    /\ steps' = steps + 1
    /\ UNCHANGED <<entries, entries_fts, entry_stats, tags, entry_tags, seq, now, nupd, txs, writer, lockers>>
    /\ UNCHANGED HttpVars

\* A call that only touches the tables.
Finish(op, caller, slug, args, r, updated) ==
    /\ Install(r.t)
    /\ last' = Call(op, caller, slug, args, r.err, r.res)
    /\ nupd' = Updates(r.t, updated)
    /\ steps' = steps + 1
    /\ UNCHANGED <<lock, now, txs, writer, lockers>>
    /\ UNCHANGED HttpVars

ToolCreateEntry ==
    /\ steps < MaxSteps
    /\ \E i \in 1..Len(EntryInputs) : \E fault \in CreateFaultsOf(i) :
          LET e == EntryInputs[i] IN
          Finish("create_entry", "tool", e.slug, [e |-> e, fault |-> fault],
                 toolCreateEntry(e, fault), {})

ToolUpdateEntry ==
    /\ steps < MaxSteps
    /\ \E slug \in Slugs, i \in 1..Len(FieldInputs) : \E fault \in UpdateFaultsOf(i) :
          LET r == toolUpdateEntry(slug, FieldInputs[i], fault) IN
          Finish("update_entry", "tool", slug, [fields |-> FieldInputs[i], fault |-> fault], r,
                 IF r.err = "ok" THEN {r.res.id} ELSE {})

ToolDeleteEntry ==
    /\ steps < MaxSteps
    /\ \E slug \in Slugs, foreign_keys \in ForeignKeys, fault \in DeleteFaults :
          Finish("delete_entry", "tool", slug, [foreign_keys |-> foreign_keys, fault |-> fault],
                 toolDeleteEntry(slug, foreign_keys, fault), {})

ToolGetEntry ==
    /\ steps < MaxSteps
    /\ \E slug \in Slugs, fault \in GetFaults :
          Finish("get_entry", "tool", slug, [fault |-> fault], toolGetEntry(slug, fault), {})

ToolSearchEntries ==
    /\ steps < MaxSteps
    /\ \E query \in Queries, f \in Filters, limit \in Limits :
       \E page \in RankPages(SearchMatches(Tables, query, [f EXCEPT !.tags = << >>]), SearchLimit(limit)) :
          Finish("search_entries", "tool", EMPTY, [query |-> query, f |-> f, limit |-> limit],
                 toolSearchEntries(query, f, limit, page), {})

ToolGetEntriesByContext ==
    /\ steps < MaxSteps
    /\ \E f \in Filters, limit \in Limits :
       \E page \in TitlePages(Tables, ContextMatches(Tables, [f EXCEPT !.tag = EMPTY]), ContextLimit(limit)) :
          Finish("get_entries_by_context", "tool", EMPTY, [f |-> f, limit |-> limit],
                 toolGetEntriesByContext(f, limit, page), {})

ToolListEntries ==
    /\ steps < MaxSteps
    /\ \E f \in Filters :
          Finish("list_entries", "tool", EMPTY, [f |-> f], toolListEntries(f), {})

ToolListTags ==
    /\ steps < MaxSteps
    /\ Finish("list_tags", "tool", EMPTY, EMPTY, toolListTags, {})

DbGetStats ==
    /\ steps < MaxSteps
    /\ \E slug \in Slugs :
          Finish("get_stats", "db", slug, EMPTY, GetStats(Tables, slug), {})

CmdAdd ==
    /\ steps < MaxSteps
    /\ \E i \in 1..Len(EntryInputs) :
          LET e == EntryInputs[i] IN
          Finish("add", "cli", e.slug, [e |-> e, fault |-> "none"], cmdAdd(e), {})

CmdEdit ==
    /\ steps < MaxSteps
    /\ \E slug \in Slugs, i \in 1..Len(FieldInputs) :
          LET r == cmdEdit(slug, FieldInputs[i]) IN
          Finish("edit", "cli", slug, [fields |-> FieldInputs[i], fault |-> "none"], r,
                 IF r.err = "ok" THEN {r.res.id} ELSE {})

Next ==
    \/ Tick
    \/ Lock
    \/ Unlock
    \/ ToolCreateEntry
    \/ ToolUpdateEntry
    \/ ToolDeleteEntry
    \/ ToolGetEntry
    \/ ToolSearchEntries
    \/ ToolGetEntriesByContext
    \/ ToolListEntries
    \/ ToolListTags
    \/ DbGetStats
    \/ CmdAdd
    \/ CmdEdit

Spec == Init /\ [][Next]_vars

----------------------------------------------------------------------------
(* update_entry calls of several clients, statement by statement.            *)
(* DB.UpdateEntry is a deferred transaction in WAL mode: its first statement *)
(* (SELECT id) takes a read snapshot, its first write takes the write lock,  *)
(* and what it writes is visible to others on commit only.                   *)

SnapshotCurrent_Unchecked(c) == TRUE

\* SQLite lets a transaction that has read go on to write only if nothing was
\* committed since its snapshot; otherwise the write fails SQLITE_BUSY.
SnapshotCurrent(c) == txs[c].t = Tables

Returned(c, err, res) ==
    Call("update_entry", "tool", txs[c].slug, [fields |-> txs[c].fields, client |-> c], err, res)

\* The store after one create_entry.
InitConcurrent ==
    LET t == CreateEntry(EmptyTables, EntryA, 0, "none").t IN
    /\ entries = t.entries
    /\ entries_fts = t.entries_fts
    /\ entry_stats = t.entry_stats
    /\ tags = t.tags
    /\ entry_tags = t.entry_tags
    /\ seq = t.seq
    /\ lock = [active |-> 0, token |-> EMPTY]
    /\ now = 0
    /\ last = Call("create_entry", "tool", EntryA.slug, [e |-> EntryA, fault |-> "none"], "ok", EMPTY)
    /\ nupd = [id \in DOMAIN t.entries |-> 0]
    /\ steps = 0
    /\ txs = [c \in Clients |-> IdleTx]
    /\ writer = 0
    /\ lockers = [c \in Clients |-> IdleLocker]
    /\ NoHttp

\* The field sets of the overlapping calls: none, content, tags.
ConcurrentFields == {1, 2, 4}

\* toolUpdateEntry up to the first statement of DB.UpdateEntry:
\* checkLock, the slug check, BeginTx, SELECT id FROM entries WHERE slug = ?
TxBegin(c) ==
    /\ steps < MaxSteps
    /\ txs[c].pc = "idle"
    /\ \E slug \in Slugs, i \in ConcurrentFields :
          LET tx  == [pc |-> "read", slug |-> slug, fields |-> FieldInputs[i], t |-> Tables]
              err == IF checkLock # "ok" THEN checkLock
                     ELSE IF IdsOfSlug(Tables, slug) = {} THEN "NotFound"
                     ELSE "ok"
          IN  IF err = "ok"
              THEN /\ txs' = [txs EXCEPT ![c] = tx]
                   /\ last' = Call("BeginTx", "db", slug, [fields |-> tx.fields, client |-> c], "ok", EMPTY)
              ELSE /\ txs' = txs
                   /\ last' = Call("update_entry", "tool", slug, [fields |-> tx.fields, client |-> c], err, EMPTY)
    /\ steps' = steps + 1
    /\ UNCHANGED <<entries, entries_fts, entry_stats, tags, entry_tags, seq, lock, now, nupd, writer, lockers>>
    /\ UNCHANGED HttpVars

\* UPDATE entries ... through UPDATE entry_stats: the transaction takes the write
\* lock and works on its snapshot; an error rolls it back.
TxWrite(c) ==
    /\ txs[c].pc = "read"
    /\ writer = 0
    /\ SnapshotCurrent(c)
    /\ \E fault \in UpdateFaults :
          LET r == UpdateEntry(txs[c].t, txs[c].slug, txs[c].fields, now, fault) IN
          IF r.err = "ok"
          THEN /\ txs' = [txs EXCEPT ![c].pc = "written", ![c].t = r.t]
               /\ writer' = c
               /\ last' = Call("ExecContext", "db", txs[c].slug, [fields |-> txs[c].fields, client |-> c], "ok", EMPTY)
          ELSE /\ txs' = [txs EXCEPT ![c] = IdleTx]
               /\ writer' = 0
               /\ last' = Returned(c, r.err, EMPTY)
    /\ UNCHANGED <<entries, entries_fts, entry_stats, tags, entry_tags, seq, lock, now, nupd, steps, lockers>>
    /\ UNCHANGED HttpVars

\* The write lock is held by another transaction until busy_timeout expires, or
\* the snapshot is stale: the UPDATE fails and the deferred Rollback runs.
TxBusy(c) ==
    /\ txs[c].pc = "read"
    /\ writer # 0 \/ ~SnapshotCurrent(c)
    /\ txs' = [txs EXCEPT ![c] = IdleTx]
    /\ last' = Returned(c, "Internal", EMPTY)
    /\ UNCHANGED <<entries, entries_fts, entry_stats, tags, entry_tags, seq, lock, now, nupd, steps, writer, lockers>>
    /\ UNCHANGED HttpVars

\* tx.Commit(): DB.UpdateEntry returns nil.
TxCommit(c) ==
    /\ txs[c].pc = "written"
    /\ writer = c
    /\ Install(txs[c].t)
    /\ nupd' = Updates(txs[c].t, IdsOfSlug(txs[c].t, txs[c].slug))
    /\ txs' = [txs EXCEPT ![c].pc = "committed"]
    /\ writer' = 0
    /\ last' = Call("UpdateEntry", "db", txs[c].slug, [fields |-> txs[c].fields, client |-> c], "ok", EMPTY)
    /\ UNCHANGED <<lock, now, steps, lockers>>
    /\ UNCHANGED HttpVars

\* The rest of toolUpdateEntry: GetEntry of the slug, whose result the tool returns.
TxReadBack(c) ==
    /\ txs[c].pc = "committed"
    /\ writer = 0
    /\ LET r == GetEntry(Tables, txs[c].slug, now, "none") IN
          /\ Install(r.t)
          /\ nupd' = Updates(r.t, {})
          /\ last' = Returned(c, r.err, r.res)
    /\ txs' = [txs EXCEPT ![c] = IdleTx]
    /\ UNCHANGED <<lock, now, steps, writer, lockers>>
    /\ UNCHANGED HttpVars

\* Calls of other clients, each a transaction of its own, wait for the write lock.
NextConcurrent ==
    \/ \E c \in Clients : TxBegin(c)
    \/ \E c \in Clients : TxWrite(c)
    \/ \E c \in Clients : TxBusy(c)
    \/ \E c \in Clients : TxCommit(c)
    \/ \E c \in Clients : TxReadBack(c)
    \/ writer = 0 /\ ToolCreateEntry
    \/ writer = 0 /\ ToolDeleteEntry

SpecConcurrent == InitConcurrent /\ [][NextConcurrent]_vars

----------------------------------------------------------------------------
(* lock commands of several callers, statement by statement.  DB.Lock reads   *)
(* the lock row (IsLocked) and writes it (UPDATE lock) as two statements on   *)
(* the pool, outside any transaction.                                         *)

\* DB.Lock up to its check: the token check and IsLocked.
LockCheck(c) ==
    /\ steps < MaxSteps
    /\ lockers[c].pc = "idle"
    /\ \E token \in Tokens :
          LET err == IF token = EMPTY THEN "Validation"
                     ELSE IF IsLocked THEN "AlreadyLocked"
                     ELSE "ok"
          IN  IF err = "ok"
              THEN /\ lockers' = [lockers EXCEPT ![c] = [pc |-> "checked", token |-> token]]
                   /\ last' = Call("IsLocked", "db", EMPTY, token, "ok", EMPTY)
              ELSE /\ lockers' = lockers
                   /\ last' = Call("lock", "cli", EMPTY, token, err, EMPTY)
    /\ steps' = steps + 1
    /\ UNCHANGED <<entries, entries_fts, entry_stats, tags, entry_tags, seq, lock, now, nupd, txs, writer>>
    /\ UNCHANGED HttpVars

\* UPDATE lock SET active = 1, token = ? WHERE id = 1: DB.Lock returns nil.
LockWrite(c) ==
    /\ lockers[c].pc = "checked"
    /\ lock' = [active |-> 1, token |-> hashToken(lockers[c].token)]
    /\ lockers' = [lockers EXCEPT ![c].pc = "done"]
    /\ last' = Call("lock", "cli", EMPTY, lockers[c].token, "ok", EMPTY)
    /\ UNCHANGED <<entries, entries_fts, entry_stats, tags, entry_tags, seq, now, nupd, steps, txs, writer>>
    /\ UNCHANGED HttpVars

\* cmdUnlock; a successful unlock ends the hold of every caller whose lock succeeded.
LockersUnlock ==
    /\ steps < MaxSteps
    /\ \E token \in Tokens :
          LET r == UnlockResult(token) IN
          /\ lock' = r.lock
          /\ lockers' = IF r.err = "ok"
                        THEN [c \in Clients |->
                                IF lockers[c].pc = "done" THEN IdleLocker ELSE lockers[c]]
                        ELSE lockers
          /\ last' = Call("unlock", "cli", EMPTY, token, r.err, EMPTY)
    /\ steps' = steps + 1
    /\ UNCHANGED <<entries, entries_fts, entry_stats, tags, entry_tags, seq, now, nupd, txs, writer>>
    /\ UNCHANGED HttpVars

NextLockers ==
    \/ \E c \in Clients : LockCheck(c)
    \/ \E c \in Clients : LockWrite(c)
    \/ LockersUnlock

SpecLockers == Init /\ [][NextLockers]_vars

----------------------------------------------------------------------------
(* create_entry, update_entry and delete_entry calls of several clients next  *)
(* to lock and unlock commands, statement by statement.  A tool handler runs  *)
(* checkLock (a SELECT on the pool) and then the DB call, a transaction of    *)
(* its own; the lock row and the tables live in the same database file.       *)

\* The calls the clients make: two creates of one slug with different data,
\* an update and a delete of that slug.
WriterCalls ==
    { [op |-> "create_entry", slug |-> EntryA.slug, args |-> EntryA],
      [op |-> "create_entry", slug |-> EntryA.slug, args |-> [EntryB EXCEPT !.slug = EntryA.slug]],
      [op |-> "update_entry", slug |-> EntryA.slug, args |-> [content |-> <<"echidna">>]],
      [op |-> "delete_entry", slug |-> EntryA.slug, args |-> [k \in {} |-> EMPTY]] }

\* A call in progress: the statement it is at, what its transaction has read
\* and staged (t, lock), its number n, the numbers of the calls in progress
\* when it began (open), whether its slug was free then, and how it ended.
InFlight(c) == txs[c].pc \notin {"idle", "returned"}

\* The handler returns toolError(err) or toolResult.
Return(c, err, res) ==
    /\ txs' = [txs EXCEPT ![c].pc = "returned", ![c].err = err]
    /\ last' = Call(txs[c].op, "tool", txs[c].slug, [args |-> txs[c].args, client |-> c], err, res)

\* The transaction's snapshot is the current state of the database file.
Current(c) == txs[c].t = Tables /\ txs[c].lock = lock

TxExec_OnPool(c, pc, t1) ==
    /\ txs' = [txs EXCEPT ![c].pc = pc, ![c].t = t1]
    /\ writer' = c
    /\ Install(t1)

\* tx.ExecContext: the statement takes the write lock and acts on the
\* transaction's copy; the others see what it wrote on Commit only.
TxExec(c, pc, t1) ==
    /\ txs' = [txs EXCEPT ![c].pc = pc, ![c].t = t1]
    /\ writer' = c
    /\ UNCHANGED <<entries, entries_fts, entry_stats, tags, entry_tags, seq>>

\* The handler up to the DB call: s.checkLock() and the argument checks.
CallCheck(c) ==
    /\ steps < MaxCalls
    /\ ~InFlight(c)
    /\ \E call \in WriterCalls :
          LET err == IF checkLock # "ok" THEN checkLock
                     ELSE IF call.slug = EMPTY THEN "Validation"
                     ELSE IF call.op = "create_entry" /\ EMPTY \in {call.args.title, call.args.content}
                     THEN "Validation"
                     ELSE "ok"
              tx  == [pc |-> IF err = "ok" THEN "checked" ELSE "returned",
                      op |-> call.op, slug |-> call.slug, args |-> call.args,
                      t |-> Tables, lock |-> lock, n |-> steps + 1,
                      open |-> {txs[d].n : d \in {d \in Clients \ {c} : InFlight(d)}},
                      free |-> IdsOfSlug(Tables, call.slug) = {}, err |-> err]
          IN  /\ txs' = [txs EXCEPT ![c] = tx]
              /\ last' = IF err = "ok"
                         THEN Call("checkLock", "tool", call.slug, [args |-> call.args, client |-> c], "ok", EMPTY)
                         ELSE Call(call.op, "tool", call.slug, [args |-> call.args, client |-> c], err, EMPTY)
    /\ steps' = steps + 1
    /\ UNCHANGED <<entries, entries_fts, entry_stats, tags, entry_tags, seq, lock, now, nupd, writer, lockers>>
    /\ UNCHANGED HttpVars

\* BeginTx and the first statement.  CreateEntry starts with its INSERT, which
\* waits for the write lock (busy_timeout) and then checks the constraints
\* against the committed rows; its other statements are staged with it.
\* UpdateEntry and DeleteEntry start with SELECT id, which takes the snapshot.
CallBegin(c) ==
    /\ txs[c].pc = "checked"
    /\ IF txs[c].op = "create_entry"
       THEN /\ writer = 0
            /\ LET r == CreateEntry(Tables, txs[c].args, now, "none") IN
               IF r.err = "ok"
               THEN /\ txs' = [txs EXCEPT ![c].pc = "written", ![c].t = r.t, ![c].lock = lock]
                    /\ writer' = c
                    /\ last' = Call("ExecContext", "db", txs[c].slug, [args |-> txs[c].args, client |-> c], "ok", EMPTY)
               ELSE /\ Return(c, r.err, EMPTY)
                    /\ writer' = writer
       ELSE /\ writer' = writer
            /\ IF IdsOfSlug(Tables, txs[c].slug) = {}
               THEN Return(c, "NotFound", EMPTY)
               ELSE /\ txs' = [txs EXCEPT ![c].pc = "read", ![c].t = Tables, ![c].lock = lock]
                    /\ last' = Call("BeginTx", "db", txs[c].slug, [args |-> txs[c].args, client |-> c], "ok", EMPTY)
    /\ UNCHANGED <<entries, entries_fts, entry_stats, tags, entry_tags, seq, lock, now, nupd, steps, lockers>>
    /\ UNCHANGED HttpVars

\* The first write of UpdateEntry (its statements up to the counter write are
\* staged together) and of DeleteEntry (DELETE FROM entries_fts).
CallWrite(c) ==
    /\ txs[c].pc = "read"
    /\ writer = 0
    /\ Current(c)
    /\ IF txs[c].op = "update_entry"
       THEN \E fault \in UpdateFaults :
               LET r == UpdateEntry(txs[c].t, txs[c].slug, txs[c].args, now, fault) IN
               IF r.err = "ok"
               THEN /\ TxExec(c, "written", r.t)
                    /\ last' = Call("ExecContext", "db", txs[c].slug, [args |-> txs[c].args, client |-> c], "ok", EMPTY)
               ELSE /\ Return(c, r.err, EMPTY)
                    /\ writer' = 0
                    /\ UNCHANGED <<entries, entries_fts, entry_stats, tags, entry_tags, seq>>
       ELSE /\ TxExec(c, "unindexed", [txs[c].t EXCEPT !.entries_fts = Drop(@, IdOfSlug(txs[c].t, txs[c].slug))])
            /\ last' = Call("ExecContext", "db", txs[c].slug, [args |-> txs[c].args, client |-> c], "ok", EMPTY)
    /\ UNCHANGED <<lock, now, nupd, steps, lockers>>
    /\ UNCHANGED HttpVars

\* DELETE FROM entries WHERE id = ?, the second write of DeleteEntry; when it
\* fails the deferred Rollback drops what the transaction staged.
CallDeleteRow(c) ==
    /\ txs[c].pc = "unindexed"
    /\ writer = c
    /\ \E foreign_keys \in ForeignKeys, fault \in DeleteFaults :
          IF fault = "delete"
          THEN /\ Return(c, "Internal", EMPTY)
               /\ writer' = 0
               /\ UNCHANGED <<entries, entries_fts, entry_stats, tags, entry_tags, seq>>
          ELSE /\ TxExec(c, "written", DeleteRow(txs[c].t, IdOfSlug(txs[c].t, txs[c].slug), foreign_keys))
               /\ last' = Call("ExecContext", "db", txs[c].slug, [args |-> txs[c].args, client |-> c], "ok", EMPTY)
    /\ UNCHANGED <<lock, now, nupd, steps, lockers>>
    /\ UNCHANGED HttpVars

\* The first write of a transaction finds the write lock held until
\* busy_timeout expires (at once on a pooled connection that PRAGMA
\* busy_timeout never configured), or the snapshot it has read is stale: the
\* statement fails with SQLITE_BUSY and the deferred Rollback runs.
CallBusy(c) ==
    /\ \/ txs[c].pc = "read" /\ (writer # 0 \/ ~Current(c))
       \/ txs[c].pc = "checked" /\ txs[c].op = "create_entry" /\ writer # 0
    /\ Return(c, "Internal", EMPTY)
    /\ UNCHANGED <<entries, entries_fts, entry_stats, tags, entry_tags, seq, lock, now, nupd, steps, writer, lockers>>
    /\ UNCHANGED HttpVars

\* tx.Commit().  create_entry and delete_entry return their result;
\* update_entry goes on to read the entry back.
CallCommit(c) ==
    /\ txs[c].pc = "written"
    /\ writer = c
    /\ Install(txs[c].t)
    /\ writer' = 0
    /\ IF txs[c].op = "update_entry"
       THEN /\ nupd' = Updates(txs[c].t, IdsOfSlug(txs[c].t, txs[c].slug))
            /\ txs' = [txs EXCEPT ![c].pc = "committed"]
            /\ last' = Call("UpdateEntry", "db", txs[c].slug, [args |-> txs[c].args, client |-> c], "ok", EMPTY)
       ELSE /\ nupd' = Updates(txs[c].t, {})
            /\ Return(c, "ok", EMPTY)
    /\ UNCHANGED <<lock, now, steps, lockers>>
    /\ UNCHANGED HttpVars

\* The rest of toolUpdateEntry: GetEntry of the slug, whose result it returns.
CallReadBack(c) ==
    /\ txs[c].pc = "committed"
    /\ writer = 0
    /\ LET r == GetEntry(Tables, txs[c].slug, now, "none") IN
          /\ Install(r.t)
          /\ nupd' = Updates(r.t, {})
          /\ Return(c, r.err, r.res)
    /\ UNCHANGED <<lock, now, steps, writer, lockers>>
    /\ UNCHANGED HttpVars

\* lock and unlock write the lock row: they wait for the write lock.
NextWriters ==
    \/ \E c \in Clients : CallCheck(c)
    \/ \E c \in Clients : CallBegin(c)
    \/ \E c \in Clients : CallWrite(c)
    \/ \E c \in Clients : CallDeleteRow(c)
    \/ \E c \in Clients : CallBusy(c)
    \/ \E c \in Clients : CallCommit(c)
    \/ \E c \in Clients : CallReadBack(c)
    \/ writer = 0 /\ steps < MaxCalls /\ Lock
    \/ writer = 0 /\ steps < MaxCalls /\ Unlock

SpecWriters == Init /\ [][NextWriters]_vars

----------------------------------------------------------------------------
(* search_entries and get_entries_by_context on a populated store, with the   *)
(* limit argument as the tool reads it.                                       *)

\* intVal(args, "limit", def): the number given, def when the key is absent.
intVal(m, key, def) == IF key \in DOMAIN m THEN m[key] ELSE def

FillerSlugs == <<"f1", "f2", "f3", "f4", "f5", "f6", "f7", "f8", "f9", "f10">>

Filler(i) == [slug |-> <<FillerSlugs[i]>>, title |-> <<"short">>, description |-> EMPTY,
              content |-> <<"monotreme">>, kind |-> EMPTY, language |-> <<"go">>,
              domain |-> EMPTY, project |-> EMPTY,
              tags |-> IF i % 2 = 1 THEN << <<"r">> >> ELSE << >>]

Library == <<EntryA, EntryB>> \o [i \in 1..Len(FillerSlugs) |-> Filler(i)]

\* The tables after create_entry of the first n entries of the library.
RECURSIVE Populated(_)
Populated(n) ==
    IF n = 0 THEN EmptyTables
    ELSE CreateEntry(Populated(n - 1), Library[n], 0, "none").t

StoreSizes == {0, 2, Len(Library)}

InitQueries ==
    \E n \in StoreSizes :
       LET t == Populated(n) IN
       /\ entries = t.entries
       /\ entries_fts = t.entries_fts
       /\ entry_stats = t.entry_stats
       /\ tags = t.tags
       /\ entry_tags = t.entry_tags
       /\ seq = t.seq
       /\ lock = [active |-> 0, token |-> EMPTY]
       /\ now = 0
       /\ last = Call("open", "db", EMPTY, EMPTY, "ok", EMPTY)
       /\ nupd = [id \in DOMAIN t.entries |-> 0]
       /\ steps = 0
       /\ txs = [c \in Clients |-> IdleTx]
       /\ writer = 0
       /\ lockers = [c \in Clients |-> IdleLocker]
       /\ NoHttp

LimitArgs == {[k \in {} |-> 0], [limit |-> 0], [limit |-> 1], [limit |-> 50], [limit |-> 51]}

SearchFilters == {NoFilter, [NoFilter EXCEPT !.language = <<"go">>], [NoFilter EXCEPT !.tag = <<"e">>]}

ContextFilters == {NoFilter,
                   [NoFilter EXCEPT !.language = <<"go">>],
                   [NoFilter EXCEPT !.tags = << <<"r">> >>],
                   [NoFilter EXCEPT !.tags = << <<"e">>, <<"r">> >>],
                   [NoFilter EXCEPT !.kind = <<"skill">>, !.tags = << <<"e">> >>]}

\* Filters of a direct call of DB.GetEntriesByContext: Tag, with and without Tags.
DbContextFilters == {[NoFilter EXCEPT !.tag = <<"e">>],
                     [NoFilter EXCEPT !.tag = <<"r">>, !.language = <<"go">>],
                     [NoFilter EXCEPT !.tag = <<"e">>, !.tags = << <<"r">> >>]}

QueryToolSearchEntries ==
    /\ steps < MaxQueries
    /\ \E query \in Queries, f \in SearchFilters, args \in LimitArgs :
       LET limit == intVal(args, "limit", DefaultSearchLimit) IN
       \E page \in RankPages(SearchMatches(Tables, query, f), SearchLimit(limit)) :
          Finish("search_entries", "tool", EMPTY, [query |-> query, f |-> f, limit |-> args],
                 toolSearchEntries(query, f, limit, page), {})

QueryToolGetEntriesByContext ==
    /\ steps < MaxQueries
    /\ \E f \in ContextFilters, args \in LimitArgs :
       LET limit == intVal(args, "limit", DefaultContextLimit) IN
       \E page \in TitlePages(Tables, ContextMatches(Tables, f), ContextLimit(limit)) :
          Finish("get_entries_by_context", "tool", EMPTY, [f |-> f, limit |-> args],
                 toolGetEntriesByContext(f, limit, page), {})

QueryDbGetEntriesByContext ==
    /\ steps < MaxQueries
    /\ \E f \in DbContextFilters, limit \in {1, DefaultContextLimit} :
       \E page \in TitlePages(Tables, ContextMatches(Tables, f), ContextLimit(limit)) :
          Finish("get_entries_by_context", "db", EMPTY, [f |-> f, limit |-> [limit |-> limit]],
                 GetEntriesByContext(Tables, f, limit, page, now), {})

NextQueries ==
    \/ QueryToolSearchEntries
    \/ QueryToolGetEntriesByContext
    \/ QueryDbGetEntriesByContext

SpecQueries == InitQueries /\ [][NextQueries]_vars

----------------------------------------------------------------------------
(* MCP over HTTP (package mcp): Server.ServeHTTP, the JSON-RPC envelope, the   *)
(* session registry and the method table.  A JSON object is a function from    *)
(* its keys; a key that is absent from the text is absent from the function.   *)

\* r.Header.Get(key), params.Arguments[key]: "" when the key is absent.
Get(m, key) == IF key \in DOMAIN m THEN m[key] ELSE EMPTY

\* strings.HasPrefix and strings.TrimPrefix, for a prefix of one token.
HasPrefix(s, prefix) == s # EMPTY /\ Head(s) = prefix

TrimPrefix(s, prefix) == IF HasPrefix(s, prefix) THEN Tail(s) ELSE s

\* jsonrpcResponse: Result and Error are omitempty.
rpcResult(id, result) == [jsonrpc |-> "2.0", id |-> id, result |-> result]

rpcErr(id, code, msg) == [jsonrpc |-> "2.0", id |-> id, error |-> [code |-> code, message |-> msg]]

toolResult(id, data) == rpcResult(id, [content |-> data, isError |-> FALSE])

toolError(id, msg) == rpcResult(id, [content |-> msg, isError |-> TRUE])

\* hex.EncodeToString of the n-th 16 bytes read from crypto/rand; two reads
\* are taken to give different bytes.
SessionID(n) == <<"sid", n>>

generateSessionID == SessionID(rand + 1)

\* What a handler leaves: the response, the tables, the registry, and the
\* entries it updated.
Reply(resp) == [resp |-> resp, t |-> Tables, sessions |-> sessions, rand |-> rand, updated |-> {}]

ToolReply_AsProtocolError(id, r, updated) ==
    [resp |-> IF r.err = "ok" THEN toolResult(id, r.res) ELSE rpcErr(id, -32603, r.err),
     t |-> r.t, sessions |-> sessions, rand |-> rand,
     updated |-> IF r.err = "ok" THEN updated ELSE {}]

\* A tool handler's return: toolError(id, err.Error()) or toolResult(id, data).
ToolReply(id, r, updated) ==
    [resp |-> IF r.err = "ok" THEN toolResult(id, r.res) ELSE toolError(id, r.err),
     t |-> r.t, sessions |-> sessions, rand |-> rand,
     updated |-> IF r.err = "ok" THEN updated ELSE {}]

handleInitialize(req) ==
    LET sessionID == generateSessionID
        result == [protocolVersion |-> <<"2025-11-25">>,
                   capabilities |-> <<"tools", "resources", "prompts">>,
                   serverInfo |-> <<"mcpedia", "0.1.0">>,
                   _sessionId |-> sessionID]
    IN  [resp |-> rpcResult(req.id, result), t |-> Tables,
         sessions |-> sessions \cup {sessionID}, rand |-> rand + 1, updated |-> {}]

\* db.Filter as the tool handlers fill it from the arguments.
FilterOf(args) ==
    [kind |-> Get(args, "kind"), language |-> Get(args, "language"), domain |-> Get(args, "domain"),
     project |-> Get(args, "project"), tag |-> Get(args, "tag"), tags |-> Get(args, "tags")]

\* db.Entry as toolCreateEntry fills it from the arguments.
EntryOfArgs(args) ==
    [slug |-> Get(args, "slug"), title |-> Get(args, "title"),
     description |-> Get(args, "description"), content |-> Get(args, "content"),
     kind |-> Get(args, "kind"), language |-> Get(args, "language"),
     domain |-> Get(args, "domain"), project |-> Get(args, "project"), tags |-> Get(args, "tags")]

\* The fields toolUpdateEntry passes on: the columns and tags present in the arguments.
FieldsOfArgs(args) == [k \in DOMAIN args \cap (Columns \cup {"tags"}) |-> args[k]]

\* The arguments of a tools/call request ({} when there are none).
Arguments(req) ==
    IF "params" \in DOMAIN req /\ "arguments" \in DOMAIN req.params THEN req.params.arguments
    ELSE [k \in {} |-> EMPTY]

\* The pages the engine can return to the query of a search_entries or
\* get_entries_by_context call; other requests run no limited query.
PagesOf(req) ==
    LET args == Arguments(req) IN
    IF req.method = "tools/call" /\ "params" \in DOMAIN req /\ req.params.name = "search_entries"
    THEN RankPages(SearchMatches(Tables, Get(args, "query"), [FilterOf(args) EXCEPT !.tags = << >>]),
                   SearchLimit(intVal(args, "limit", DefaultSearchLimit)))
    ELSE IF req.method = "tools/call" /\ "params" \in DOMAIN req
              /\ req.params.name = "get_entries_by_context"
    THEN TitlePages(Tables, ContextMatches(Tables, [FilterOf(args) EXCEPT !.tag = EMPTY]),
                    ContextLimit(intVal(args, "limit", DefaultContextLimit)))
    ELSE {{}}

UnknownTool_AsToolError(id) == toolError(id, "Unknown tool")

\* The default arm of handleToolsCall.
UnknownTool(id) == rpcErr(id, -32602, "Unknown tool")

handleToolsCall(req, page, foreign_keys) ==
    IF "params" \notin DOMAIN req THEN Reply(rpcErr(req.id, -32602, "Invalid params"))
    ELSE
    LET id == req.id
        name == req.params.name
        args == Arguments(req)
        slug == Get(args, "slug")
    IN  CASE name = "search_entries" ->
                ToolReply(id, toolSearchEntries(Get(args, "query"), FilterOf(args),
                                                intVal(args, "limit", DefaultSearchLimit), page), {})
          [] name = "get_entry" -> ToolReply(id, toolGetEntry(slug, "none"), {})
          [] name = "get_entries_by_context" ->
                ToolReply(id, toolGetEntriesByContext(FilterOf(args),
                                                      intVal(args, "limit", DefaultContextLimit), page), {})
          [] name = "list_entries" -> ToolReply(id, toolListEntries(FilterOf(args)), {})
          [] name = "list_tags" -> ToolReply(id, toolListTags, {})
          [] name = "create_entry" -> ToolReply(id, toolCreateEntry(EntryOfArgs(args), "none"), {})
          [] name = "update_entry" ->
                ToolReply(id, toolUpdateEntry(slug, FieldsOfArgs(args), "none"), IdsOfSlug(Tables, slug))
          [] name = "delete_entry" -> ToolReply(id, toolDeleteEntry(slug, foreign_keys, "none"), {})
          [] OTHER -> Reply(UnknownTool(id))

\* ORDER BY e.title: the rows in title order (rows of equal title in the order
\* of their ids, the same order on an unchanged store).
OrderByTitle(t, ids) ==
    LET Before(b, a) == \/ StrLess(t.entries[b].title, t.entries[a].title)
                        \/ t.entries[b].title = t.entries[a].title /\ b < a
        ranked == {<<Cardinality({b \in ids : Before(b, a)}), a>> : a \in ids}
    IN  [i \in 1..Cardinality(ids) |-> (CHOOSE p \in ranked : p[1] = i - 1)[2]]

\* A cursor is base64 of the decimal offset: <<"b64", "int", n>>.  <<"b64", ...>>
\* is any other base64 text, anything else is not base64.
EncodeCursor(n) == <<"b64", "int", n>>

\* base64.StdEncoding.DecodeString, then strconv.Atoi; offset stays 0 on either error.
DecodeCursor(cursor) ==
    IF cursor # EMPTY /\ Head(cursor) = "b64" /\ Len(cursor) = 3 /\ cursor[2] = "int" THEN cursor[3] ELSE 0

\* The reply of a handler that panics: net/http recovers and closes the
\* connection without writing a response.
Panic == [panic |-> TRUE]

handleResourcesList_Overlapping(req) ==
    LET cursor == IF "params" \in DOMAIN req THEN Get(req.params, "cursor") ELSE EMPTY
        offset == DecodeCursor(cursor)
        all == OrderByTitle(Tables, ListEntries(Tables, NoFilter))
        end == Min(offset + resourcesPerPage, Len(all))
        page == IF offset < Len(all) THEN SubSeq(all, offset + 1, end) ELSE << >>
        resources == [i \in 1..Len(page) |->
                         [uri |-> <<"mcpedia://entries/">> \o entries[page[i]].slug,
                          name |-> entries[page[i]].slug,
                          title |-> entries[page[i]].title,
                          description |-> entries[page[i]].description]]
    IN  IF offset < 0 /\ offset < Len(all) THEN Reply(Panic)
        ELSE IF end < Len(all)
        THEN Reply(rpcResult(req.id, [resources |-> resources, nextCursor |-> EncodeCursor(end - 1)]))
        ELSE Reply(rpcResult(req.id, [resources |-> resources]))

handleResourcesList(req) ==
    LET cursor == IF "params" \in DOMAIN req THEN Get(req.params, "cursor") ELSE EMPTY
        offset == DecodeCursor(cursor)
        all == OrderByTitle(Tables, ListEntries(Tables, NoFilter))
        end == Min(offset + resourcesPerPage, Len(all))
        page == IF offset < Len(all) THEN SubSeq(all, offset + 1, end) ELSE << >>
        resources == [i \in 1..Len(page) |->
                         [uri |-> <<"mcpedia://entries/">> \o entries[page[i]].slug,
                          name |-> entries[page[i]].slug,
                          title |-> entries[page[i]].title,
                          description |-> entries[page[i]].description]]
    IN  IF offset < 0 /\ offset < Len(all) THEN Reply(Panic)
        ELSE IF end < Len(all)
        THEN Reply(rpcResult(req.id, [resources |-> resources, nextCursor |-> EncodeCursor(end)]))
        ELSE Reply(rpcResult(req.id, [resources |-> resources]))

handleResourcesRead(req) ==
    IF "params" \notin DOMAIN req THEN Reply(rpcErr(req.id, -32602, "Invalid params"))
    ELSE
    LET uri == Get(req.params, "uri")
        slug == TrimPrefix(uri, "mcpedia://entries/")
        r == GetEntry(Tables, slug, now, "none")
    IN  IF slug = EMPTY \/ slug = uri THEN Reply(rpcErr(req.id, -32002, "Invalid resource URI"))
        ELSE IF r.err # "ok" THEN Reply(rpcErr(req.id, -32002, r.err))
        ELSE [resp |-> rpcResult(req.id, [contents |-> [uri |-> uri, text |-> r.res.row.content]]),
              t |-> r.t, sessions |-> sessions, rand |-> rand, updated |-> {}]

\* The default arm of handlePromptsGet.
UnknownPrompt(id) == rpcErr(id, -32602, "Unknown prompt")

handlePromptsGet(req) ==
    IF "params" \notin DOMAIN req THEN Reply(rpcErr(req.id, -32602, "Invalid params"))
    ELSE
    LET name == req.params.name
        slug == Get(Get(req.params, "arguments"), "slug")
        r == GetEntry(Tables, slug, now, "none")
    IN  IF name \in {"apply-entry", "review-with-entry"}
        THEN IF slug = EMPTY THEN Reply(rpcErr(req.id, -32602, "slug argument is required"))
             ELSE IF r.err # "ok" THEN Reply(rpcErr(req.id, -32602, r.err))
             ELSE [resp |-> rpcResult(req.id, [description |-> r.res.row.title,
                                               messages |-> <<r.res.row.title, r.res.row.content>>]),
                   t |-> r.t, sessions |-> sessions, rand |-> rand, updated |-> {}]
        ELSE IF name = "save-learnings"
        THEN Reply(rpcResult(req.id, [description |-> "Save learnings from the current task"]))
        ELSE Reply(UnknownPrompt(req.id))

MethodNotFound_Answered(req) == Reply(rpcResult(req.id, [k \in {} |-> EMPTY]))

\* dispatch's default arm.
MethodNotFound(req) == Reply(rpcErr(req.id, -32601, "Method not found"))

dispatch(req, page, foreign_keys) ==
    CASE req.method = "initialize" -> handleInitialize(req)
      [] req.method = "ping" -> Reply(rpcResult(req.id, [k \in {} |-> EMPTY]))
      [] req.method = "tools/list" -> Reply(rpcResult(req.id, [tools |-> 8]))
      [] req.method = "tools/call" -> handleToolsCall(req, page, foreign_keys)
      [] req.method = "resources/list" -> handleResourcesList(req)
      [] req.method = "resources/read" -> handleResourcesRead(req)
      [] req.method = "resources/templates/list" -> Reply(rpcResult(req.id, [resourceTemplates |-> 1]))
      [] req.method = "prompts/list" -> Reply(rpcResult(req.id, [prompts |-> 3]))
      [] req.method = "prompts/get" -> handlePromptsGet(req)
      [] OTHER -> MethodNotFound(req)

\* req.ID, nil when the envelope has no id.
IdOf(req) == IF "id" \in DOMAIN req THEN req.id ELSE NULL

\* What serveRequest writes and leaves.
Written(status, header, body, reply) ==
    [status |-> status, header |-> header, body |-> body,
     t |-> reply.t, sessions |-> reply.sessions, rand |-> reply.rand, updated |-> reply.updated]

NoHeader == [k \in {} |-> EMPTY]

\* http.Error(w, text, status)
HttpError(text, status) == Written(status, NoHeader, [text |-> text], Reply(EMPTY))

\* writeJSON(w, http.StatusOK, resp) for a handler's reply.
WriteJSON_KeepsSessionId(header, reply) == Written(200, header, reply.resp, reply)

WriteJSON(header, reply) ==
    Written(200, header,
            IF "Mcp-Session-Id" \in DOMAIN header
            THEN [reply.resp EXCEPT !.result = Drop(@, "_sessionId")] ELSE reply.resp,
            reply)

\* The Mcp-Session-Id header serveRequest sets: for initialize, when the reply
\* has no error and its result carries _sessionId.
SessionHeader(req, resp) ==
    IF req.method = "initialize" /\ "error" \notin DOMAIN resp /\ "_sessionId" \in DOMAIN resp.result
    THEN [k \in {"Mcp-Session-Id"} |-> resp.result["_sessionId"]]
    ELSE NoHeader

AuthCheck_PrefixOnly(r) ==
    Token = EMPTY \/ HasPrefix(Get(r.header, "Authorization"), "Bearer ")

\* Auth check: passes when no token is configured or the header is "Bearer " + Token.
AuthCheck(r) ==
    \/ Token = EMPTY
    \/ LET auth == Get(r.header, "Authorization") IN
       HasPrefix(auth, "Bearer ") /\ TrimPrefix(auth, "Bearer ") = Token

SessionCheck_Skipped(r, req) == TRUE

\* Session validation for non-initialize requests: a session id, when one is
\* given, must be in the registry.
SessionCheck(r, req) ==
    \/ req.method = "initialize"
    \/ Get(r.header, "Mcp-Session-Id") = EMPTY
    \/ Get(r.header, "Mcp-Session-Id") \in sessions

handleNotification_Dispatches(req) == dispatch(Put(req, "id", NULL), {}, TRUE)

\* handleNotification: notifications/initialized, notifications/cancelled -- nothing to do.
handleNotification(req) == Reply(EMPTY)

serveRequest(r, page, foreign_keys) ==
    IF r.verb # "POST" THEN HttpError("Method not allowed", 405)
    ELSE IF ~AuthCheck(r) THEN HttpError("Unauthorized", 401)
    ELSE IF ~r.body.json THEN WriteJSON(NoHeader, Reply(rpcErr(NULL, -32700, "Parse error")))
    ELSE
    LET req == r.body.req IN
    IF req.jsonrpc # "2.0" THEN WriteJSON(NoHeader, Reply(rpcErr(IdOf(req), -32600, "Invalid request")))
    ELSE IF "id" \notin DOMAIN req THEN Written(202, NoHeader, EMPTY, handleNotification(req))
    ELSE IF ~SessionCheck(r, req) THEN WriteJSON(NoHeader, Reply(rpcErr(req.id, -32600, "Invalid session")))
    ELSE LET reply == dispatch(req, page, foreign_keys) IN
         IF "panic" \in DOMAIN reply.resp THEN Written(0, NoHeader, EMPTY, reply)
         ELSE WriteJSON(SessionHeader(req, reply.resp), reply)

\* Requests: envelopes, headers and bodies.

Envelope(method) == [jsonrpc |-> "2.0", id |-> <<"1">>, method |-> method]

WithParams(method, params) == Put(Envelope(method), "params", params)

ToolCall(name, arguments) == WithParams("tools/call", [name |-> name, arguments |-> arguments])

NoArgs == [k \in {} |-> EMPTY]

CreateA == ToolCall("create_entry", EntryA)

\* The reserved usage guide: its slug, its URI, and the calls that create and read it.
HowToUse == <<"how-to-use">>

HowToUseURI == <<"mcpedia://how-to-use">>

CreateGuide ==
    ToolCall("create_entry", [slug |-> HowToUse, title |-> <<"guide">>, content |-> <<"echidna">>])

GetGuide == ToolCall("get_entry", [slug |-> HowToUse])

ReadGuide == WithParams("resources/read", [uri |-> HowToUseURI])

ToolCalls ==
    { CreateA,
      CreateGuide,
      GetGuide,
      ToolCall("create_entry", [slug |-> <<"b">>, content |-> <<"echidna">>]),
      ToolCall("update_entry", [slug |-> <<"a">>, content |-> <<"echidna">>]),
      ToolCall("update_entry", NoArgs),
      ToolCall("delete_entry", [slug |-> <<"a">>]),
      ToolCall("get_entry", [slug |-> <<"a">>]),
      ToolCall("get_entry", NoArgs),
      ToolCall("search_entries", [query |-> <<"monotreme">>]),
      ToolCall("search_entries", NoArgs),
      ToolCall("get_entries_by_context", [language |-> <<"go">>]),
      ToolCall("list_entries", NoArgs),
      ToolCall("list_tags", NoArgs),
      ToolCall("bogus_tool", NoArgs),
      Envelope("tools/call") }

ResourceCalls ==
    { Envelope("resources/list"),
      WithParams("resources/list", [cursor |-> EncodeCursor(1)]),
      WithParams("resources/list", [cursor |-> EncodeCursor(-1)]),
      WithParams("resources/list", [cursor |-> <<"b64", "text">>]),
      WithParams("resources/read", [uri |-> <<"mcpedia://entries/", "a">>]),
      WithParams("resources/read", [uri |-> <<"mcpedia://entries/">>]),
      WithParams("resources/read", [uri |-> <<"a">>]),
      ReadGuide,
      Envelope("resources/read"),
      Envelope("resources/templates/list") }

PromptCalls ==
    { WithParams("prompts/get", [name |-> "apply-entry", arguments |-> [slug |-> <<"a">>]]),
      WithParams("prompts/get", [name |-> "apply-entry", arguments |-> NoArgs]),
      WithParams("prompts/get", [name |-> "review-with-entry", arguments |-> [slug |-> <<"b">>]]),
      WithParams("prompts/get", [name |-> "save-learnings", arguments |-> NoArgs]),
      WithParams("prompts/get", [name |-> "nonexistent", arguments |-> NoArgs]),
      Envelope("prompts/get"),
      Envelope("prompts/list") }

MethodCalls ==
    {Envelope("initialize"), Envelope("ping"), Envelope("tools/list"), Envelope("bogus/method")}
       \cup ToolCalls \cup ResourceCalls \cup PromptCalls

\* The envelopes sent with every variation of header, version and id.
Probes == {Envelope("initialize"), Envelope("ping"), CreateA, Envelope("bogus/method")}

Notifications == {Drop(e, "id") : e \in Probes \cup {Envelope("notifications/initialized")}}

Bearer == [k \in {"Authorization"} |-> <<"Bearer ">> \o <<"secret">>]

BadAuth == {[k \in {"Authorization"} |-> a] : a \in {<<"Bearer ", "wrong">>, <<"secret">>, <<"bearer ", "secret">>}}

Session(h, sid) == Put(h, "Mcp-Session-Id", sid)

SessionIds == {SessionID(1), <<"stale">>}

Post(header, req) == [verb |-> "POST", header |-> header, body |-> [json |-> TRUE, req |-> req]]

Requests ==
    {Post(h, e) : h \in {NoHeader, Bearer}, e \in MethodCalls \cup Notifications}
       \cup {Post(Session(h, sid), e) : h \in {NoHeader, Bearer}, sid \in SessionIds,
                                        e \in Probes \cup Notifications}
       \cup {Post(h, e) : h \in BadAuth, e \in {Envelope("initialize"), CreateA}}
       \cup {Post(h, [e EXCEPT !.jsonrpc = "1.0"]) :
                h \in {NoHeader, Bearer}, e \in {Envelope("initialize"), CreateA, Drop(CreateA, "id")}}
       \cup {[verb |-> v, header |-> h, body |-> [json |-> FALSE]] :
                v \in {"POST", "GET"}, h \in {NoHeader, Bearer}}
       \cup {[Post(h, CreateA) EXCEPT !.verb = "GET"] : h \in {NoHeader, Bearer}}

InitRpc ==
    \E n \in {0, 2}, active \in {0, 1}, secret \in {EMPTY, <<"secret">>} :
       LET t == Populated(n) IN
       /\ entries = t.entries
       /\ entries_fts = t.entries_fts
       /\ entry_stats = t.entry_stats
       /\ tags = t.tags
       /\ entry_tags = t.entry_tags
       /\ seq = t.seq
       /\ lock = IF active = 1 THEN [active |-> 1, token |-> hashToken(<<"secret">>)]
                 ELSE [active |-> 0, token |-> EMPTY]
       /\ now = 0
       /\ last = Call("open", "db", EMPTY, EMPTY, "ok", EMPTY)
       /\ nupd = [id \in DOMAIN t.entries |-> 0]
       /\ steps = 0
       /\ txs = [c \in Clients |-> IdleTx]
       /\ writer = 0
       /\ lockers = [c \in Clients |-> IdleLocker]
       /\ Token = secret
       /\ sessions = {}
       /\ rand = 0
       /\ http = [req |-> EMPTY, resp |-> EMPTY]
       /\ walk = NoWalk

ServeHTTP ==
    /\ steps < MaxRequests
    /\ \E r \in Requests :
       \E page \in (IF r.body.json THEN PagesOf(r.body.req) ELSE {{}}) :
       \E foreign_keys \in (IF r.body.json /\ r.body.req \in ToolCalls THEN ForeignKeys ELSE {TRUE}) :
       \E w \in {serveRequest(r, page, foreign_keys)} :
          /\ Install(w.t)
          /\ sessions' = w.sessions
          /\ rand' = w.rand
          /\ http' = [req |-> r, resp |-> [status |-> w.status, header |-> w.header, body |-> w.body]]
          /\ last' = Call("ServeHTTP", "http", EMPTY, EMPTY, "ok", EMPTY)
          /\ nupd' = Updates(w.t, w.updated)
          /\ steps' = steps + 1
          /\ UNCHANGED <<lock, now, txs, writer, lockers, Token, walk>>

NextRpc == ServeHTTP

SpecRpc == InitRpc /\ [][NextRpc]_vars

----------------------------------------------------------------------------
(* Package importfm: export-format Markdown with frontmatter *)

\* A file is the sequence of its lines (the text split at "\n"); a line and a
\* filename are sequences of characters. "---", ".md" and the frontmatter keys
\* are one token each; " " and "\n" are the whitespace.

maxContentLen == 32768

validKinds == {<<"skill">>, <<"rule">>, <<"context">>, <<"pattern">>, <<"reference">>, <<"guide">>}

allowedKeys == {"title", "kind", "language", "domain", "project", "tags", "description"}

requiredKeys == {"title", "kind", "language", "domain", "project", "tags"}

\* [a-z0-9]
LowerDigit == {"a", "b", "e", "r", "0"}

\* ^[a-z0-9][a-z0-9-]*$
slugRegex(slug) ==
    /\ slug # EMPTY
    /\ slug[1] \in LowerDigit
    /\ \A i \in 2..Len(slug) : slug[i] \in LowerDigit \cup {"-"}

\* strings.TrimSpace where line breaks are whitespace too.
RECURSIVE TrimWs(_)
TrimWs(s) ==
    IF s # EMPTY /\ Head(s) \in {" ", "\n"} THEN TrimWs(Tail(s))
    ELSE IF s # EMPTY /\ s[Len(s)] \in {" ", "\n"} THEN TrimWs(SubSeq(s, 1, Len(s) - 1))
    ELSE s

\* strings.Index(s, sep) for a separator of one token: 0-based, -1 when absent.
IndexOf(s, sep) ==
    IF \E i \in 1..Len(s) : s[i] = sep
    THEN (CHOOSE i \in 1..Len(s) : s[i] = sep /\ \A j \in 1..(i - 1) : s[j] # sep) - 1
    ELSE -1

\* strings.Split(s, sep)
RECURSIVE Split(_, _)
Split(s, sep) ==
    LET i == IndexOf(s, sep) IN
    IF i < 0 THEN <<s>> ELSE <<SubSeq(s, 1, i)>> \o Split(SubSeq(s, i + 2, Len(s)), sep)

\* strings.Join(lines, "\n")
RECURSIVE JoinLines(_)
JoinLines(lines) ==
    IF lines = << >> THEN EMPTY
    ELSE IF Len(lines) = 1 THEN lines[1]
    ELSE lines[1] \o <<"\n">> \o JoinLines(Tail(lines))

\* filepath.Base
RECURSIVE Base(_)
Base(filename) ==
    IF filename = EMPTY THEN <<".">>
    ELSE IF filename[Len(filename)] = "/"
    THEN (IF Len(filename) = 1 THEN <<"/">> ELSE Base(SubSeq(filename, 1, Len(filename) - 1)))
    ELSE Split(filename, "/")[Len(Split(filename, "/"))]

Invalid == [err |-> "invalid format", res |-> EMPTY]

slugFromFilename(filename) ==
    LET base == Base(filename)
        slug == IF base # EMPTY /\ base[Len(base)] = ".md" THEN SubSeq(base, 1, Len(base) - 1) ELSE base
    IN  IF base = <<".">> \/ base = <<"/">> THEN Invalid
        ELSE IF slug = base THEN Invalid
        ELSE IF slug = EMPTY THEN Invalid
        ELSE IF ~slugRegex(slug) THEN Invalid
        ELSE [err |-> "ok", res |-> slug]

unquoteVal(v) ==
    LET s == TrimWs(v) IN
    IF Len(s) >= 2 /\ ((s[1] = "\"" /\ s[Len(s)] = "\"") \/ (s[1] = "'" /\ s[Len(s)] = "'"))
    THEN SubSeq(s, 2, Len(s) - 1)
    ELSE s

\* The loop of parseFrontmatter over the lines of the block: the values read
\* so far (out) and the keys seen.
RECURSIVE frontmatterLines(_, _, _)
frontmatterLines(lines, out, seen) ==
    IF lines = << >> THEN [err |-> "ok", out |-> out, seen |-> seen]
    ELSE LET line == TrimWs(Head(lines))
             colon == IndexOf(line, ":")
             key == TrimWs(SubSeq(line, 1, colon))
         IN  IF line = EMPTY THEN frontmatterLines(Tail(lines), out, seen)
             ELSE IF colon <= 0 THEN [err |-> "invalid format", out |-> out, seen |-> seen]
             ELSE IF ~(Len(key) = 1 /\ key[1] \in allowedKeys)
                  THEN [err |-> "invalid format", out |-> out, seen |-> seen]
             ELSE IF key[1] \in seen THEN [err |-> "invalid format", out |-> out, seen |-> seen]
             ELSE frontmatterLines(Tail(lines),
                     [out EXCEPT ![key[1]] = unquoteVal(TrimWs(SubSeq(line, colon + 2, Len(line))))],
                     seen \cup {key[1]})

parseFrontmatter(block) ==
    LET r == frontmatterLines(Split(block, "\n"), [k \in allowedKeys |-> EMPTY], {}) IN
    IF r.err # "ok" THEN Invalid
    ELSE IF ~(requiredKeys \subseteq r.seen) THEN Invalid
    ELSE IF r.out["title"] = EMPTY THEN Invalid
    ELSE [err |-> "ok", res |-> r.out]

\* The loop of parseTagsList over the parts between commas.
RECURSIVE tagParts(_)
tagParts(parts) ==
    IF parts = << >> THEN << >>
    ELSE LET p == unquoteVal(TrimWs(Head(parts))) IN
         IF p # EMPTY THEN <<p>> \o tagParts(Tail(parts)) ELSE tagParts(Tail(parts))

parseTagsList(v) ==
    LET s == TrimWs(v)
        inner == TrimWs(SubSeq(s, 2, Len(s) - 1))
    IN  IF s = <<"[", "]">> \/ s = EMPTY THEN << >>
        ELSE IF ~(s[1] = "[" /\ s[Len(s)] = "]") THEN << >>
        ELSE IF inner = EMPTY THEN << >>
        ELSE tagParts(Split(inner, ","))

\* The index of the line that closes the frontmatter: the first line after the
\* second that begins with "---" (strings.Index(rest, "\n---")), 0 when none.
Closing(content) ==
    IF \E j \in 3..Len(content) : content[j] # EMPTY /\ Head(content[j]) = "---"
    THEN CHOOSE j \in 3..Len(content) :
            /\ content[j] # EMPTY /\ Head(content[j]) = "---"
            /\ \A i \in 3..(j - 1) : content[i] = EMPTY \/ Head(content[i]) # "---"
    ELSE 0

ParseImportFile(content, filename) ==
    LET slug == slugFromFilename(filename)
        j == Closing(content)
        frontmatter == TrimWs(JoinLines(SubSeq(content, 2, j - 1)))
        body == TrimWs(JoinLines(<<Tail(content[j])>> \o SubSeq(content, j + 1, Len(content))))
        meta == parseFrontmatter(frontmatter)
    IN  IF slug.err # "ok" THEN Invalid
        ELSE IF ~(Len(content) >= 2 /\ content[1] = <<"---">>) THEN Invalid
        ELSE IF j = 0 THEN Invalid
        ELSE IF ByteLen(body) > maxContentLen THEN Invalid
        ELSE IF meta.err # "ok" THEN Invalid
        ELSE IF meta.res["kind"] \notin validKinds THEN Invalid
        ELSE [err |-> "ok",
              res |-> [slug |-> slug.res, title |-> meta.res["title"],
                       description |-> meta.res["description"], content |-> body,
                       kind |-> meta.res["kind"], language |-> meta.res["language"],
                       domain |-> meta.res["domain"], project |-> meta.res["project"],
                       tags |-> parseTagsList(meta.res["tags"])]]

\* Files and filenames to parse.
Dash == <<"---">>

KV(key, val) == <<key, ":", " ">> \o val

GoodFront ==
    << KV("title", <<"guide">>), KV("kind", <<"skill">>), KV("language", <<"go">>),
       KV("domain", EMPTY), KV("project", EMPTY), KV("tags", <<"[", "e", ",", " ", "r", "]">>) >>

FrontMatters ==
    { GoodFront,
      GoodFront \o <<KV("description", <<"\"", "short", "\"">>)>>,
      [GoodFront EXCEPT ![1] = KV("title", <<"\"", "\"">>)],
      [GoodFront EXCEPT ![1] = KV("title", <<"\"", " ", "\"">>)],
      [GoodFront EXCEPT ![1] = <<" ", "title", ":", "guide", " ">>],
      Tail(GoodFront),
      [GoodFront EXCEPT ![2] = KV("kind", <<"bogus">>)],
      [GoodFront EXCEPT ![2] = KV("kind", EMPTY)],
      [GoodFront EXCEPT ![6] = KV("tags", <<"e">>)],
      GoodFront \o <<KV("slug", <<"a">>)>>,
      GoodFront \o <<KV("kind", <<"rule">>)>>,
      GoodFront \o << <<"guide">> >>,
      GoodFront \o << <<":", "guide">> >>,
      <<EMPTY, <<" ">>>> \o GoodFront,
      << >> }

Closings == {Dash, <<"---", "-">>}

Bodies ==
    { << >>,
      <<EMPTY>>,
      << <<"monotreme">>, EMPTY >>,
      << EMPTY, <<" ", "monotreme", " ">>, <<"echidna">> >>,
      << <<" ">>, EMPTY >>,
      << <<"x32769">> >> }

Files ==
    { <<Dash>> \o fm \o <<cl>> \o body : fm \in FrontMatters, cl \in Closings, body \in Bodies }
       \cup { <<EMPTY>>,
              <<Dash>>,
              GoodFront \o <<Dash, <<"monotreme">>>>,
              <<Dash>> \o GoodFront \o << <<"monotreme">> >>,
              << <<"---", " ">> >> \o GoodFront \o <<Dash, <<"monotreme">>>>,
              <<Dash, Dash, <<"monotreme">>, Dash>> }

Filenames ==
    { <<"a", ".md">>, <<"a", "-", "0", ".md">>, <<"e", "/", "a", ".md">>, <<"A", ".md">>,
      <<"-", "a", ".md">>, <<"a", ".md", ".md">>, <<".md">>, <<"a">>, EMPTY, <<"/">> }

InitImport ==
    \E content \in Files, filename \in Filenames :
       /\ entries = << >>
       /\ entries_fts = << >>
       /\ entry_stats = << >>
       /\ tags = {}
       /\ entry_tags = {}
       /\ seq = 0
       /\ lock = [active |-> 0, token |-> EMPTY]
       /\ now = 0
       /\ last = Call("ReadFile", "import", EMPTY, [content |-> content, filename |-> filename],
                      "ok", EMPTY)
       /\ nupd = << >>
       /\ steps = 0
       /\ txs = [c \in Clients |-> IdleTx]
       /\ writer = 0
       /\ lockers = [c \in Clients |-> IdleLocker]
       /\ NoHttp

\* ParseImportFile(content, filename) of the file read.
ParseFile ==
    /\ last.op = "ReadFile"
    /\ \E r \in {ParseImportFile(last.args.content, last.args.filename)} :
          last' = Call("ParseImportFile", "import", EMPTY, last.args, r.err, r.res)
    /\ steps' = steps + 1
    /\ UNCHANGED <<entries, entries_fts, entry_stats, tags, entry_tags, seq, lock, now, nupd, txs, writer, lockers>>
    /\ UNCHANGED HttpVars

NextImport == ParseFile

SpecImport == InitImport /\ [][NextImport]_vars

----------------------------------------------------------------------------
(* Paging through resources/list (TestResourcesPagination) *)

\* The decimal digits of i < 1000 as three tokens; byte order of the strings is
\* the order of the numbers ("%03d").
Digits(i) ==
    <<Alphabet[((i \div 100) % 10) + 1], Alphabet[((i \div 10) % 10) + 1], Alphabet[(i % 10) + 1]>>

\* The k-th entry created: slug "pg-" + digits; the title carries the digits of
\* k * stride, so that with a stride other than 1 the titles are not in the
\* order of creation.
PageEntry(k, stride) ==
    [slug |-> <<"pg">> \o Digits(k), title |-> Digits((k * stride) % 1000), description |-> EMPTY,
     content |-> <<"monotreme">>, kind |-> EMPTY, language |-> EMPTY, domain |-> EMPTY,
     project |-> EMPTY, tags |-> << >>]

Strides == {1, 37}

\* The tables after create_entry of n such entries, one after the other, on an
\* empty store: ids 1..n, one index row and one zeroed statistics row each, no tags.
Paged(n, stride) ==
    [EmptyTables EXCEPT
        !.entries = [id \in 1..n |-> NewRow(PageEntry(id - 1, stride), 0)],
        !.entries_fts = [id \in 1..n |-> FtsRow(PageEntry(id - 1, stride))],
        !.entry_stats = [id \in 1..n |-> ZeroStats],
        !.seq = n]

InitPages ==
    \E n \in 0..MaxEntries, stride \in Strides :
       LET t == Paged(n, stride) IN
       /\ entries = t.entries
       /\ entries_fts = t.entries_fts
       /\ entry_stats = t.entry_stats
       /\ tags = t.tags
       /\ entry_tags = t.entry_tags
       /\ seq = t.seq
       /\ lock = [active |-> 0, token |-> EMPTY]
       /\ now = 0
       /\ last = Call("open", "db", EMPTY, EMPTY, "ok", EMPTY)
       /\ nupd = [id \in DOMAIN t.entries |-> 0]
       /\ steps = 0
       /\ txs = [c \in Clients |-> IdleTx]
       /\ writer = 0
       /\ lockers = [c \in Clients |-> IdleLocker]
       /\ NoHttp

\* The client posts resources/list with the given parameters and keeps what it
\* is given: the page and the continuation token, if there is one.
ListPage(req) ==
    \E r \in {Post(NoHeader, req)} :
    \E w \in {serveRequest(r, {}, TRUE)} :
        /\ Install(w.t)
        /\ sessions' = w.sessions
        /\ rand' = w.rand
        /\ http' = [req |-> r, resp |-> [status |-> w.status, header |-> w.header, body |-> w.body]]
        /\ last' = Call("ServeHTTP", "http", EMPTY, EMPTY, "ok", EMPTY)
        /\ nupd' = Updates(w.t, w.updated)
        /\ steps' = steps + 1
        /\ walk' = [cursor |-> Get(w.body.result, "nextCursor"),
                    pages |-> Append(walk.pages, Len(w.body.result.resources)),
                    seen |-> walk.seen \o w.body.result.resources,
                    done |-> "nextCursor" \notin DOMAIN w.body.result]
        /\ UNCHANGED <<lock, now, txs, writer, lockers, Token>>

\* call("resources/list", nil)
ListFirst ==
    /\ walk = NoWalk
    /\ ListPage(Envelope("resources/list"))

\* call("resources/list", {"cursor": nextCursor})
ListNext ==
    /\ walk.cursor # EMPTY
    /\ ListPage(WithParams("resources/list", [cursor |-> walk.cursor]))

NextPages == ListFirst \/ ListNext

SpecPages == InitPages /\ [][NextPages]_vars
----------------------------------------------------------------------------
(* Properties *)

TableVars == <<entries, entries_fts, entry_stats, tags, entry_tags, seq>>

WriteTools == {"create_entry", "update_entry", "delete_entry"}

MutatingCalls == {"create_entry", "update_entry", "delete_entry", "add", "edit"}

ReadTools == {"get_entry", "list_entries", "search_entries", "get_entries_by_context", "get_stats"}

\* A step that is a call of one of the given operations by the given callers.
Calls(ops, callers) == steps' # steps /\ last'.op \in ops /\ last'.caller \in callers

\* C1: while the write lock is active, every create_entry, update_entry and
\* delete_entry tool call fails Locked and leaves entries, index, tag associations
\* and statistics as they were; while it is inactive (before a lock or after the
\* unlock) no such call fails Locked.
C1_LockedToolWritesRejected ==
    [][ Calls(WriteTools, {"tool"}) =>
          IF IsLocked THEN last'.err = "Locked" /\ UNCHANGED TableVars
          ELSE last'.err # "Locked" ]_vars

C1_Witness ==
    /\ IsLocked
    /\ last.caller = "tool" /\ last.op = "update_entry" /\ last.err = "Locked"
    /\ IdsOfSlug(Tables, last.slug) # {}

C3_VersionCountsUpdates ==
    \A id \in DOMAIN entries : entries[id].version = 1 + nupd[id]

\* Two update_entry calls on the same entry overlap, both were committed, and one
\* of them named no field.
C3_Witness ==
    /\ txs[1].pc = "committed" /\ txs[2].pc = "committed"
    /\ txs[1].slug = txs[2].slug
    /\ DOMAIN txs[2].fields = {}
    /\ \E id \in IdsOfSlug(Tables, txs[1].slug) : entries[id].version = 3 /\ nupd[id] = 2

\* C4: create is all-or-nothing: whenever create returns an error, the store is
\* exactly as it was before the call.
C4_FailedCreateLeavesNoTrace ==
    [][ (Calls({"create_entry", "add"}, {"tool", "cli"}) /\ last'.err # "ok") =>
          UNCHANGED TableVars ]_vars

\* C5: after a successful delete, lookup of the slug and its statistics fail
\* NotFound, no search matches the handle, no tag association of it remains, every
\* tag count counts live entries only, and the slug can be created again as a fresh
\* entry with version 1 and zeroed counters.
C5_DeleteCascades ==
    (last.op = "delete_entry" /\ last.err = "ok") =>
        LET id == last.res
            r  == CreateEntry(Tables, [EntryA EXCEPT !.slug = last.slug], now, "none")
        IN  /\ GetEntry(Tables, last.slug, now, "none").err = "NotFound"
            /\ GetStats(Tables, last.slug).err = "NotFound"
            /\ \A q \in Queries, f \in Filters : id \notin SearchMatches(Tables, q, f)
            /\ \A p \in entry_tags : p[1] # id
            /\ \A tc \in ListTags(Tables) :
                  tc.count = Cardinality({i \in DOMAIN entries : <<i, tc.name>> \in entry_tags})
            /\ r.err = "ok"
            /\ r.res.id # id
            /\ r.t.entries[r.res.id].version = 1
            /\ r.t.entry_stats[r.res.id] = ZeroStats

\* C6: right after a successful create the entry has version 1, zeroed counters
\* with null last-event timestamps, kind 'skill' if none was given, and it is
\* returned by lookup of its slug and by a search for any term of its content.
C6_FreshEntry ==
    (last.op \in {"create_entry", "add"} /\ last.err = "ok") =>
        LET id == last.res.id
            e  == last.args.e
            g  == GetEntry(Tables, e.slug, now, "none")
        IN  /\ id \in DOMAIN entries
            /\ entries[id].version = 1 /\ last.res.version = 1
            /\ entry_stats[id] = ZeroStats
            /\ entries[id].kind = (IF e.kind = EMPTY THEN <<"skill">> ELSE e.kind)
            /\ g.err = "ok" /\ g.res.id = id /\ g.res.row.content = e.content
            /\ \A i \in 1..Len(e.content) :
                  \A page \in RankPages(SearchMatches(Tables, <<e.content[i]>>, NoFilter),
                                        SearchLimit(DefaultSearchLimit)) : id \in page

\* An entry created with no kind, next to an older entry.
C6_Witness ==
    /\ last.op = "create_entry" /\ last.err = "ok"
    /\ last.args.e.kind = EMPTY
    /\ Cardinality(DOMAIN entries) = 2

\* C7: a successful update changes exactly the columns named in its field set,
\* plus version and updated_at; every other column, the slug, the handle and
\* created_at keep their values, the tag set is unchanged unless a tags field is
\* present, and no other entry changes.
C7_PartialUpdate ==
    [][ (Calls({"update_entry", "edit"}, {"tool", "cli"}) /\ last'.err = "ok") =>
          LET id == last'.res.id
              f  == last'.args.fields
          IN  /\ id \in DOMAIN entries /\ DOMAIN entries' = DOMAIN entries
              /\ entries[id].slug = last'.slug
              /\ \A c \in Columns :
                    entries'[id][c] = IF c \in DOMAIN f THEN f[c] ELSE entries[id][c]
              /\ entries'[id].slug = entries[id].slug
              /\ entries'[id].created_at = entries[id].created_at
              /\ entries'[id].version = entries[id].version + 1
              /\ entries'[id].updated_at = now
              /\ "tags" \notin DOMAIN f =>
                    {p \in entry_tags' : p[1] = id} = {p \in entry_tags : p[1] = id}
              /\ \A other \in DOMAIN entries \ {id} : entries'[other] = entries[other] ]_vars

\* Title and kind were updated; content and language kept their values.
C7_Witness ==
    /\ last.op = "update_entry" /\ last.err = "ok"
    /\ DOMAIN last.args.fields = {"title", "kind"}
    /\ last.res.row.title = <<"updated">>
    /\ last.res.row.content = <<"monotreme">>
    /\ last.res.row.language = <<"go">>
    /\ last.res.row.version = 2

\* C8 (as claimed): create, update and delete fail Locked while the lock is
\* active, whichever caller invokes them, the CLI add/edit commands included.
C8_EveryCallerGated ==
    [][ (Calls(MutatingCalls, {"tool", "cli"}) /\ IsLocked) => last'.err = "Locked" ]_vars

\* C8 (amended): the lock is checked by the MCP tool handlers, not by the
\* repository operations: a mutating call fails Locked exactly when the lock is
\* active and the caller is a tool handler; the CLI add/edit commands are not gated.
C8_LockGatesToolsOnly ==
    [][ Calls(MutatingCalls, {"tool", "cli"}) =>
          (last'.err = "Locked" <=> (IsLocked /\ last'.caller = "tool")) ]_vars

\* The CLI added an entry while the lock was active.
C8_Witness ==
    /\ IsLocked
    /\ last.op = "add" /\ last.caller = "cli" /\ last.err = "ok"
    /\ IdsOfSlug(Tables, last.slug) # {}

\* C9: a read is never gated by the lock: get, list, search, getByContext and
\* getStats return what the store holds, whatever the lock state (get and getStats
\* fail only for a slug that does not exist).
C9_ReadsIgnoreLock ==
    /\ last.op = "get_entry" =>
          IF IdsOfSlug(Tables, last.slug) = {} THEN last.err = "NotFound"
          ELSE last.err = "ok" /\ last.res = EntryOf(Tables, IdOfSlug(Tables, last.slug))
    /\ last.op = "get_stats" =>
          IF IdsOfSlug(Tables, last.slug) = {} THEN last.err = "NotFound"
          ELSE last.err = "ok" /\ last.res = entry_stats[IdOfSlug(Tables, last.slug)]
    /\ last.op = "list_entries" =>
          last.err = "ok" /\ last.res = {id \in DOMAIN entries : MatchesColumns(Tables, id, last.args.f)}
    /\ last.op = "search_entries" =>
          /\ last.err = "ok"
          /\ last.res \in RankPages(SearchMatches(Tables, last.args.query, [last.args.f EXCEPT !.tags = << >>]),
                                    SearchLimit(last.args.limit))
    /\ last.op = "get_entries_by_context" =>
          /\ last.err = "ok"
          /\ {x.id : x \in last.res} \in
                TitlePages(Tables, ContextMatches(Tables, [last.args.f EXCEPT !.tag = EMPTY]),
                           ContextLimit(last.args.limit))
          /\ \A x \in last.res : x = EntryOf(Tables, x.id)

\* A search that returns an entry while the lock is active.
C9_Witness ==
    /\ IsLocked
    /\ last.op = "search_entries" /\ last.err = "ok" /\ last.res # {}

\* C10: lock(secret) succeeds only from the unlocked state with a non-empty secret;
\* an empty secret fails Validation, an active lock fails AlreadyLocked, and both
\* failures leave the active flag and the stored hash as they were.
C10_LockTransitions ==
    [][ Calls({"lock"}, {"cli"}) =>
          IF last'.args = EMPTY THEN last'.err = "Validation" /\ lock' = lock
          ELSE IF IsLocked THEN last'.err = "AlreadyLocked" /\ lock' = lock
          ELSE /\ last'.err = "ok"
               /\ lock' = [active |-> 1, token |-> hashToken(last'.args)] ]_vars

\* A second lock with another secret was refused and the first hash is still stored.
C10_Witness ==
    /\ last.op = "lock" /\ last.err = "AlreadyLocked" /\ last.args = <<"wrong">>
    /\ lock = [active |-> 1, token |-> hashToken(<<"secret">>)]

\* C11: unlock(secret) succeeds, and sets the lock inactive, exactly when the lock
\* is active and the secret hashes to the stored hash (the secret of the lock call
\* that activated it); an empty secret fails Validation, an inactive lock fails
\* NotLocked, another secret fails InvalidToken, and every failure leaves the lock
\* row as it was.
C11_UnlockTransitions ==
    [][ Calls({"unlock"}, {"cli"}) =>
          LET token == last'.args IN
          /\ last'.err = "ok" <=>
                (IsLocked /\ token # EMPTY /\ lock.token = hashToken(token))
          /\ last'.err = "ok" => lock' = [active |-> 0, token |-> EMPTY]
          /\ last'.err # "ok" =>
                /\ lock' = lock
                /\ last'.err = IF token = EMPTY THEN "Validation"
                               ELSE IF ~IsLocked THEN "NotLocked"
                               ELSE "InvalidToken" ]_vars

\* An unlock with another secret was refused and the store is still locked with
\* the hash of the original secret.
C11_Witness ==
    /\ last.op = "unlock" /\ last.err = "InvalidToken" /\ last.args = <<"wrong">>
    /\ lock = [active |-> 1, token |-> hashToken(<<"secret">>)]

\* C12: of the lock calls that run concurrently on an unlocked store at most one
\* succeeds, and the stored hash is that of the successful caller's secret, so
\* that caller can unlock.
C12_OneLockerWins ==
    LET won == {c \in Clients : lockers[c].pc = "done"} IN
    /\ Cardinality(won) <= 1
    /\ \A c \in won : /\ lock = [active |-> 1, token |-> hashToken(lockers[c].token)]
                      /\ UnlockResult(lockers[c].token).err = "ok"

\* C13: a create whose slug, title or content is empty, or whose content is longer
\* than 32,768 bytes, fails Validation and creates nothing, whether it enters
\* through the tool handler or reaches the storage layer from the CLI.
C13_CreateValidates ==
    [][ ( /\ Calls({"create_entry", "add"}, {"tool", "cli"})
          /\ last'.args.fault = "none" /\ last'.err # "Locked"
          /\ LET e == last'.args.e IN
                \/ e.slug = EMPTY \/ e.title = EMPTY \/ e.content = EMPTY
                \/ ByteLen(e.content) > MaxContentLen )
        => (last'.err = "Validation" /\ UNCHANGED TableVars) ]_vars

\* C14: a create whose slug already exists (and whose arguments are otherwise
\* accepted) fails DuplicateSlug and changes nothing: the existing entry's row,
\* index row, counters and tag associations, and the tag table, stay as they were.
C14_DuplicateSlugRejected ==
    [][ ( /\ Calls({"create_entry", "add"}, {"tool", "cli"})
          /\ last'.args.fault = "none"
          /\ last'.caller = "tool" => ~IsLocked
          /\ LET e == last'.args.e IN
                /\ e.title # EMPTY /\ e.content # EMPTY
                /\ CharLen(e.content) <= MaxContentLen
                /\ IdsOfSlug(Tables, e.slug) # {} )
        => (last'.err = "DuplicateSlug" /\ UNCHANGED TableVars) ]_vars

\* A second create of slug b, with other content, was refused and the first
\* entry still has its content and tags.
C14_Witness ==
    /\ last.op = "create_entry" /\ last.err = "DuplicateSlug"
    /\ last.args.e.content = <<"e20000">>
    /\ \E id \in IdsOfSlug(Tables, <<"b">>) :
          /\ entries[id].content = <<"echidna">>
          /\ getTagsForEntry(Tables, id) = {<<"e">>, <<"r">>}

Kinds == {<<"skill">>, <<"rule">>, <<"context">>, <<"pattern">>, <<"reference">>, <<"guide">>}

\* C15: every stored entry has a non-empty slug, a non-empty title, a non-empty
\* content of at most 32,768 bytes and a kind of the fixed enumeration.
C15_FieldConstraints ==
    \A id \in DOMAIN entries :
        LET row == entries[id] IN
        /\ row.slug # EMPTY
        /\ row.title # EMPTY
        /\ row.content # EMPTY
        /\ ByteLen(row.content) <= MaxContentLen
        /\ row.kind \in Kinds

\* C16: an entry that has been updated successfully has an updated timestamp
\* strictly later than its created timestamp.
C16_UpdatedAfterCreated ==
    \A id \in DOMAIN entries :
        nupd[id] > 0 => entries[id].updated_at > entries[id].created_at

\* The entries the storage layer looked up directly in the call just made
\* (GetEntry, also as the last statement of an update through the tool or the CLI).
LookedUp(c) ==
    IF c.op \in {"get_entry", "update_entry", "edit"} /\ c.err = "ok" THEN {c.res.id} ELSE {}

\* The entries returned by the context retrieval just made.
Retrieved(c) == IF c.op = "get_entries_by_context" THEN {e.id : e \in c.res} ELSE {}

\* The entries in the page returned by the search just made.
Found(c) == IF c.op = "search_entries" /\ c.err = "ok" THEN c.res ELSE {}

\* The entries updated by the call just made.
Updated(c) == IF c.op \in {"update_entry", "edit"} /\ c.err = "ok" THEN {c.res.id} ELSE {}

C18_StatsFailureIsHarmless ==
    [][ (steps' # steps /\ last'.op \in {"get_entry", "update_entry"} /\ last'.args.fault = "stats") =>
          /\ last'.op = "get_entry" =>
                (toolGetEntry(last'.slug, "none").err = "ok" => last'.err = "ok")
          /\ last'.op = "update_entry" =>
                LET u == toolUpdateEntry(last'.slug, last'.args.fields, "none") IN
                u.err = "ok" =>
                   /\ last'.err = "ok"
                   /\ entries' = u.t.entries
                   /\ entries_fts' = u.t.entries_fts
                   /\ entry_tags' = u.t.entry_tags ]_vars

\* The names an update's tags field associates: each given name trimmed, the
\* blank ones dropped.
TagNames(tagList) == {TrimSpace(tagList[i]) : i \in 1..Len(tagList)} \ {EMPTY}

\* C19: an update carrying a tags field replaces the associations of the entry,
\* in the transaction of the update, by exactly the distinct, trimmed, non-blank
\* names given, whatever the prior associations, and leaves those of every other
\* entry alone; when the update fails nothing of it persists, the tag changes
\* included; and applying the same tag list again gives the same tags and
\* associations.
C19_TagsReplaced ==
    [][ (Calls({"update_entry"}, {"tool"}) /\ "tags" \in DOMAIN last'.args.fields
           /\ IdsOfSlug(Tables, last'.slug) # {}) =>
          LET id == IdOfSlug(Tables, last'.slug)
              tagList == last'.args.fields.tags
          IN  IF last'.err = "ok"
              THEN /\ getTagsForEntry(Tables', id) = TagNames(tagList)
                   /\ {p \in entry_tags' : p[1] # id} = {p \in entry_tags : p[1] # id}
                   /\ entries'[id].version = entries[id].version + 1
                   /\ setTags(Tables', id, tagList).entry_tags = entry_tags'
                   /\ setTags(Tables', id, tagList).tags = tags'
              ELSE UNCHANGED TableVars ]_vars

C19_Witness ==
    /\ last.op = "update_entry" /\ last.caller = "tool" /\ last.err = "ok"
    /\ "tags" \in DOMAIN last.args.fields
    /\ Len(last.args.fields.tags) = 3
    /\ getTagsForEntry(Tables, last.res.id) = {<<"r">>}
    /\ <<"e">> \in tags
    /\ \E p \in entry_tags : p[1] # last.res.id

\* The entries currently associated with a tag name.
EntriesTagged(name) == {id \in DOMAIN entries : <<id, name>> \in entry_tags}

\* C20: after any sequence of create, update and delete calls, list_tags reports
\* exactly the tag names that have at least one associated entry, each with the
\* number of entries currently associated with it, ordered by count descending
\* and then by name ascending.
C20_ListTagsExact ==
    last.op = "list_tags" =>
       LET res == last.res IN
       /\ {res[i].name : i \in 1..Len(res)} = {name \in tags : EntriesTagged(name) # {}}
       /\ \A i \in 1..Len(res) : res[i].count = Cardinality(EntriesTagged(res[i].name))
       /\ \A i, j \in 1..Len(res) : i < j => TagBefore(res[i], res[j])

\* The entries a context filter asks for: every given column equal, and every
\* listed tag carried, or the single tag when no tag is listed.
Wanted(f) ==
    {id \in DOMAIN entries :
        /\ \A c \in {"kind", "language", "domain", "project"} : f[c] = EMPTY \/ entries[id][c] = f[c]
        /\ IF f.tags # << >> THEN \A i \in 1..Len(f.tags) : <<id, f.tags[i]>> \in entry_tags
           ELSE f.tag = EMPTY \/ <<id, f.tag>> \in entry_tags}

Clamped(given, def) ==
    IF "limit" \notin DOMAIN given THEN def
    ELSE IF given.limit < 1 THEN 1
    ELSE IF given.limit > MaxLimit THEN MaxLimit
    ELSE given.limit

\* C22: the result limit is clamped to 1..50.  search_entries returns
\* min(matches, min(max(limit, 1), 50)) entries, with 10 for the limit when none
\* is given, and get_entries_by_context likewise with 20.
C22_LimitClamped ==
    /\ (last.op = "search_entries" /\ last.err = "ok") =>
          Cardinality(last.res) =
             Min(Cardinality(SearchMatches(Tables, last.args.query, last.args.f)),
                 Clamped(last.args.limit, DefaultSearchLimit))
    /\ last.op = "get_entries_by_context" =>
          Cardinality(last.res) =
             Min(Cardinality(Wanted(last.args.f)), Clamped(last.args.limit, DefaultContextLimit))

\* A step that serves an HTTP request.
Served == steps' # steps /\ last'.op = "ServeHTTP"

\* The request is a POST whose Authorization header is the one the server asks for.
Admitted(r) ==
    /\ r.verb = "POST"
    /\ Token = EMPTY \/ ("Authorization" \in DOMAIN r.header /\ r.header["Authorization"] = <<"Bearer ">> \o Token)

\* The request is an admitted JSON-RPC 2.0 call (it has an id) of the method.
CallOf(r, methods) ==
    /\ Admitted(r)
    /\ r.body.json
    /\ r.body.req.jsonrpc = "2.0"
    /\ "id" \in DOMAIN r.body.req
    /\ r.body.req.method \in methods

\* The session token a request carries, << >> when none.
Carried(r) == IF "Mcp-Session-Id" \in DOMAIN r.header THEN r.header["Mcp-Session-Id"] ELSE EMPTY

\* C23: every handshake (an initialize call), in any state and whatever session
\* token it carries, succeeds and issues a session identifier distinct from all
\* issued before; the identifier is returned in the Mcp-Session-Id header and
\* nowhere in the response body; the registry only grows, and a request that
\* carries an identifier issued earlier is never answered Invalid session.
C23_HandshakeIssuesFreshSession ==
    [][ Served =>
          LET r == http'.req
              resp == http'.resp
          IN  /\ sessions \subseteq sessions'
              /\ CallOf(r, {"initialize"}) =>
                    /\ resp.status = 200
                    /\ DOMAIN resp.body = {"jsonrpc", "id", "result"}
                    /\ DOMAIN resp.header = {"Mcp-Session-Id"}
                    /\ LET sid == resp.header["Mcp-Session-Id"] IN
                       /\ sid \notin sessions
                       /\ sessions' = sessions \cup {sid}
                       /\ DOMAIN resp.body.result = {"protocolVersion", "capabilities", "serverInfo"}
                       /\ \A k \in DOMAIN resp.body.result : resp.body.result[k] # sid
              /\ ~CallOf(r, {"initialize"}) => (sessions' = sessions /\ DOMAIN resp.header = {})
              /\ (r.body.json /\ Carried(r) \in sessions /\ "error" \in DOMAIN resp.body) =>
                    resp.body.error.message # "Invalid session" ]_vars

C23_Witness ==
    /\ http.req # EMPTY
    /\ CallOf(http.req, {"initialize"})
    /\ Carried(http.req) = <<"stale">>
    /\ http.resp.header["Mcp-Session-Id"] = SessionID(2)
    /\ sessions = {SessionID(1), SessionID(2)}

\* The methods of the method table other than the handshake.
OtherMethods ==
    {"ping", "tools/list", "tools/call", "resources/list", "resources/read",
     "resources/templates/list", "prompts/list", "prompts/get", "bogus/method"}

C25_NotificationDispatched ==
    [][ (Served /\ Admitted(http'.req) /\ http'.req.body.json
            /\ "id" \notin DOMAIN http'.req.body.req) =>
          LET r == http'.req
              resp == http'.resp
          IN  /\ resp.status = 202
              /\ resp.body = EMPTY
              /\ \E page \in PagesOf(r.body.req), foreign_keys \in ForeignKeys :
                    LET d == dispatch(Put(r.body.req, "id", NULL), page, foreign_keys) IN
                    /\ Tables' = d.t
                    /\ sessions' = d.sessions ]_vars

\* C25, as the code has it: a request without an id, in an envelope of version
\* 2.0 that passed the auth check, is handed to handleNotification, which does
\* nothing: it is not dispatched to its method, so tables, lock and registry
\* stay as they were, and it is answered with status 202, no session header and
\* no body, whatever its method, parameters or session token.
C25_NotificationAcknowledged ==
    [][ (Served /\ Admitted(http'.req) /\ http'.req.body.json
            /\ http'.req.body.req.jsonrpc = "2.0" /\ "id" \notin DOMAIN http'.req.body.req) =>
          /\ http'.resp = [status |-> 202, header |-> NoHeader, body |-> EMPTY]
          /\ UNCHANGED <<TableVars, lock, sessions, rand>> ]_vars

C25_Witness ==
    /\ http.req # EMPTY
    /\ Admitted(http.req) /\ http.req.body.json
    /\ http.req.body.req = Drop(CreateA, "id")
    /\ Carried(http.req) = <<"stale">>
    /\ ~IsLocked
    /\ http.resp.status = 202
    /\ entries = << >>

\* The request carries exactly the header the configured secret asks for.
Matching(r) ==
    "Authorization" \in DOMAIN r.header /\ r.header["Authorization"] = <<"Bearer ">> \o Token

\* C26: with a shared secret configured, a call whose Authorization header is
\* missing or is not exactly "Bearer " followed by the secret is rejected before
\* the dispatcher (401 Unauthorized for a POST, 405 for any other verb, a plain
\* text body) and changes nothing: no session issued, no table, counter or lock
\* changed; a call with the matching header is never answered 401.
C26_AuthRejectedBeforeDispatch ==
    [][ (Served /\ Token # EMPTY) =>
          LET r == http'.req  resp == http'.resp
          IN  IF Matching(r) THEN resp.status # 401
              ELSE /\ resp.status = (IF r.verb = "POST" THEN 401 ELSE 405)
                   /\ resp.header = NoHeader
                   /\ "text" \in DOMAIN resp.body
                   /\ UNCHANGED <<TableVars, lock, sessions, rand>> ]_vars

C26_Witness ==
    /\ http.req # EMPTY
    /\ Token = <<"secret">>
    /\ http.req.verb = "POST"
    /\ http.req.header = [k \in {"Authorization"} |-> <<"Bearer ", "wrong">>]
    /\ http.req.body.req = CreateA
    /\ ~IsLocked
    /\ http.resp.status = 401
    /\ entries = << >>

\* The methods dispatch has an arm for.
Methods ==
    {"initialize", "ping", "tools/list", "tools/call", "resources/list", "resources/read",
     "resources/templates/list", "prompts/list", "prompts/get"}

\* The body is a JSON-RPC error response with the code, and nothing else changed.
Refused(id, code) ==
    /\ http'.resp.status = 200
    /\ http'.resp.header = NoHeader
    /\ DOMAIN http'.resp.body = {"jsonrpc", "id", "error"}
    /\ http'.resp.body.id = id
    /\ http'.resp.body.error.code = code
    /\ UNCHANGED <<TableVars, lock, sessions, rand>>

\* C27: of the requests that pass the verb and auth checks, a malformed
\* envelope is answered with code -32700 and a null id; an envelope whose
\* version is not 2.0 with code -32600, with or without an id; and a call (an
\* envelope of version 2.0 with an id whose session token, if any, is a
\* registered one) naming a method the dispatcher has no arm for with code
\* -32601. None of them changes a table, the lock or the session registry.
C27_EnvelopeErrors ==
    [][ (Served /\ Admitted(http'.req)) =>
          LET r == http'.req IN
          IF ~r.body.json THEN Refused(NULL, -32700)
          ELSE IF r.body.req.jsonrpc # "2.0" THEN Refused(IdOf(r.body.req), -32600)
          ELSE (/\ "id" \in DOMAIN r.body.req
                /\ r.body.req.method \notin Methods
                /\ Carried(r) \in sessions \cup {EMPTY})
                   => Refused(r.body.req.id, -32601) ]_vars

\* An unlisted method sent in a registered session has been refused.
C27_Witness ==
    /\ http.req # EMPTY
    /\ Admitted(http.req) /\ http.req.body.json
    /\ http.req.body.req.jsonrpc = "2.0"
    /\ http.req.body.req.method = "bogus/method"
    /\ Carried(http.req) = SessionID(1)
    /\ SessionID(1) \in sessions
    /\ "error" \in DOMAIN http.resp.body
    /\ http.resp.body.error.code = -32601
    /\ ~IsLocked

\* The names handleToolsCall and handlePromptsGet have an arm for.
ToolNames ==
    {"search_entries", "get_entry", "get_entries_by_context", "list_entries", "list_tags",
     "create_entry", "update_entry", "delete_entry"}

PromptNames == {"apply-entry", "review-with-entry", "save-learnings"}

\* The request is a dispatched tools/call or prompts/get naming a tool or
\* prompt the server does not have.
UnknownName(r) ==
    /\ CallOf(r, {"tools/call", "prompts/get"})
    /\ Carried(r) \in sessions \cup {EMPTY}
    /\ "params" \in DOMAIN r.body.req
    /\ r.body.req.params.name \notin (IF r.body.req.method = "tools/call" THEN ToolNames ELSE PromptNames)

\* C28, as claimed: invoking an unknown tool name or an unknown prompt name
\* returns a successful response whose result is marked as a tool-level
\* failure, not a protocol-level error.
C28_UnknownNameIsToolFailure ==
    [][ (Served /\ UnknownName(http'.req)) =>
          /\ "error" \notin DOMAIN http'.resp.body
          /\ "result" \in DOMAIN http'.resp.body
          /\ http'.resp.body.result.isError = TRUE ]_vars

\* C28, as the code has it: invoking an unknown tool name or an unknown prompt
\* name returns a protocol-level error with the invalid-params code -32602 and
\* no result, and changes nothing.
C28_UnknownNameIsProtocolError ==
    [][ (Served /\ UnknownName(http'.req)) => Refused(http'.req.body.req.id, -32602) ]_vars

C28_Witness ==
    /\ http.req # EMPTY
    /\ Admitted(http.req) /\ http.req.body.json
    /\ http.req.body.req = ToolCall("bogus_tool", NoArgs)
    /\ "error" \in DOMAIN http.resp.body
    /\ http.resp.body.error.code = -32602

\* The request reaches the dispatcher: an admitted call whose session token, if
\* any, is registered.
Dispatched(r, methods) == CallOf(r, methods) /\ Carried(r) \in sessions \cup {EMPTY}

\* The validation, not-found or locked condition a call of a tool meets in the
\* current state, "none" when it meets none of them.
ToolCondition(req) ==
    LET name == req.params.name
        args == Arguments(req)
        slug == Get(args, "slug")
    IN  IF name \in {"create_entry", "update_entry", "delete_entry"} /\ IsLocked THEN "Locked"
        ELSE IF name = "create_entry"
        THEN (IF EMPTY \in {slug, Get(args, "title"), Get(args, "content")} THEN "Validation" ELSE "none")
        ELSE IF name = "search_entries"
        THEN (IF Get(args, "query") = EMPTY THEN "Validation" ELSE "none")
        ELSE IF name \in {"get_entry", "update_entry", "delete_entry"}
        THEN (IF slug = EMPTY THEN "Validation"
              ELSE IF IdsOfSlug(Tables, slug) = {} THEN "NotFound" ELSE "none")
        ELSE "none"

\* The condition access to a resource or to an entry's prompt meets: a missing
\* slug argument, an invalid URI or an entry that does not exist.
AccessFails(req) ==
    LET slug == IF req.method = "resources/read"
                THEN (IF HasPrefix(Get(req.params, "uri"), "mcpedia://entries/")
                      THEN TrimPrefix(Get(req.params, "uri"), "mcpedia://entries/") ELSE EMPTY)
                ELSE Get(Get(req.params, "arguments"), "slug")
    IN  slug = EMPTY \/ IdsOfSlug(Tables, slug) = {}

\* C29: a tool invocation always gets a successful response (a result, no
\* error), and when it meets a validation, not-found or locked condition the
\* result has the failure flag set and carries the condition as its text; a
\* resources/read with an invalid URI or of an entry that does not exist gets a
\* protocol error (-32002), and a prompts/get of an entry prompt with no slug
\* or of an entry that does not exist gets a protocol error (-32602), both
\* without a result; no response carries both a result and an error.
C29_ToolFailuresAreResults ==
    [][ Served =>
          LET r == http'.req  body == http'.resp.body IN
          /\ ~({"result", "error"} \subseteq DOMAIN body)
          /\ (Dispatched(r, {"tools/call"}) /\ "params" \in DOMAIN r.body.req
                 /\ r.body.req.params.name \in ToolNames) =>
                /\ DOMAIN body = {"jsonrpc", "id", "result"}
                /\ ToolCondition(r.body.req) # "none" =>
                      /\ body.result.isError = TRUE
                      /\ body.result.content = ToolCondition(r.body.req)
          /\ (Dispatched(r, {"resources/read"}) /\ "params" \in DOMAIN r.body.req
                 /\ AccessFails(r.body.req)) => Refused(r.body.req.id, -32002)
          /\ (Dispatched(r, {"prompts/get"}) /\ "params" \in DOMAIN r.body.req
                 /\ r.body.req.params.name \in {"apply-entry", "review-with-entry"}
                 /\ AccessFails(r.body.req)) => Refused(r.body.req.id, -32602) ]_vars

\* get_entry of a slug that is not in the store was answered with a result
\* flagged as a failure.
C29_Witness ==
    /\ http.req # EMPTY
    /\ Admitted(http.req) /\ http.req.body.json
    /\ http.req.body.req = ToolCall("get_entry", [slug |-> <<"a">>])
    /\ IdsOfSlug(Tables, <<"a">>) = {}
    /\ "result" \in DOMAIN http.resp.body
    /\ http.resp.body.result.isError = TRUE
    /\ http.resp.body.result.content = "NotFound"

\* The slugs in the store.
StoredSlugs == {entries[id].slug : id \in DOMAIN entries}

\* C30: a client that calls resources/list without a token and then follows
\* each token it is given, on a store that does not change, gets pages of at
\* most 50 entries, every page but the last a full one; the entries come in
\* ascending title order across the pages and none comes twice; it holds a
\* token exactly while entries of the store remain beyond what it was given;
\* and when it holds none it has been given every entry of the store (55
\* entries: a page of 50 with a token, then a page of 5 without).
C30_PagesEnumerateOnce ==
    LET n == Cardinality(DOMAIN entries)
        got == Len(walk.seen)
    IN  walk # NoWalk =>
          /\ http.resp.status = 200
          /\ \A i \in 1..Len(walk.pages) :
                /\ walk.pages[i] <= resourcesPerPage
                /\ i < Len(walk.pages) => walk.pages[i] = resourcesPerPage
          /\ \A i \in 1..(got - 1) : StrLess(walk.seen[i].title, walk.seen[i + 1].title)
          /\ Cardinality({walk.seen[i].name : i \in 1..got}) = got
          /\ {walk.seen[i].name : i \in 1..got} \subseteq StoredSlugs
          /\ \A i \in 1..got : \E id \in DOMAIN entries :
                entries[id].slug = walk.seen[i].name /\ entries[id].title = walk.seen[i].title
          /\ (walk.cursor # EMPTY) <=> (got < n)
          /\ walk.done <=> (walk.cursor = EMPTY)
          /\ walk.done => {walk.seen[i].name : i \in 1..got} = StoredSlugs
          /\ (n = 55 /\ walk.done) => walk.pages = <<50, 5>>

\* 55 entries whose titles are not in the order of creation were listed in two
\* pages, 50 and 5.
C30_Witness ==
    /\ Cardinality(DOMAIN entries) = 55
    /\ \E a, b \in DOMAIN entries : a < b /\ StrLess(entries[b].title, entries[a].title)
    /\ walk.done
    /\ walk.pages = <<50, 5>>
    /\ Len(walk.seen) = 55

\* C31: a read of mcpedia://how-to-use and a get_entry of how-to-use, once
\* dispatched, are always answered with a guide and never with a failure: with
\* the content of the entry of that slug when the store has one, with the
\* built-in default otherwise.
C31_UsageGuideAlwaysAvailable ==
    [][ Served =>
          LET r == http'.req  body == http'.resp.body IN
          /\ (Dispatched(r, {"resources/read"}) /\ r.body.req = ReadGuide) =>
                /\ "result" \in DOMAIN body
                /\ IdsOfSlug(Tables, HowToUse) # {} =>
                      body.result.contents.text = entries[IdOfSlug(Tables, HowToUse)].content
          /\ (Dispatched(r, {"tools/call"}) /\ r.body.req = GetGuide) =>
                /\ "result" \in DOMAIN body
                /\ body.result.isError = FALSE ]_vars

\* C32: no page of resources/list holds the entry of slug how-to-use, whether
\* the store has one or not, and the page is as long as the entries other than
\* it make it: those beyond the offset, 50 at most.
C32_ListExcludesUsageGuide ==
    [][ (Served /\ Dispatched(http'.req, {"resources/list"}) /\ http'.resp.status = 200) =>
          LET req == http'.req.body.req
              resources == http'.resp.body.result.resources
              offset == DecodeCursor(IF "params" \in DOMAIN req THEN Get(req.params, "cursor") ELSE EMPTY)
              others == Cardinality({id \in DOMAIN entries : entries[id].slug # HowToUse})
          IN  /\ \A i \in 1..Len(resources) : resources[i].name # HowToUse
              /\ Len(resources) = (IF offset < others THEN Min(resourcesPerPage, others - offset) ELSE 0) ]_vars

\* C33: every entry ParseImportFile returns has a slug matching
\* [a-z0-9][a-z0-9-]*, a non-empty title, a non-empty content of at most
\* 32,768 bytes and a kind of the fixed enumeration; when it returns an error
\* it returns no entry.
C33_ImportedEntryIsValid ==
    last.op = "ParseImportFile" =>
       IF last.err = "ok"
       THEN /\ slugRegex(last.res.slug)
            /\ last.res.title # EMPTY
            /\ last.res.content # EMPTY
            /\ ByteLen(last.res.content) <= maxContentLen
            /\ last.res.kind \in validKinds
       ELSE last.res = EMPTY

\* C34: every admitted request that carries a correlation id is answered with
\* exactly one JSON-RPC response, holding either a result or an error (never
\* both, never none); resources/list is so answered for every cursor: one
\* that does not decode, one that decodes to a negative offset, one beyond the
\* last entry.
C34_EveryCallAnswered ==
    [][ (Served /\ Admitted(http'.req) /\ http'.req.body.json /\ "id" \in DOMAIN http'.req.body.req) =>
          LET body == http'.resp.body IN
          /\ http'.resp.status = 200
          /\ body # EMPTY
          /\ \/ DOMAIN body = {"jsonrpc", "id", "result"}
             \/ DOMAIN body = {"jsonrpc", "id", "error"}
          /\ body.id = http'.req.body.req.id ]_vars

C36_FailedUpdateChangesNothing ==
    [][ (steps' # steps /\ last'.op \in {"update_entry", "edit"} /\ last'.err # "ok") =>
          /\ UNCHANGED <<entries, entries_fts, entry_stats, tags, entry_tags, seq>>
          /\ nupd' = nupd ]_vars

\* An update of the tags of an existing entry failed at its last statement and
\* the entry still is as created.
C36_Witness ==
    /\ last.op = "update_entry"
    /\ last.err = "Internal"
    /\ last.args.fault = "stats"
    /\ "tags" \in DOMAIN last.args.fields
    /\ IdsOfSlug(Tables, last.slug) # {}
    /\ entries[IdOfSlug(Tables, last.slug)].version = 1
    /\ <<IdOfSlug(Tables, last.slug), <<"e">>>> \in entry_tags

\* C37: whatever the interleaving of lock with the create_entry, update_entry
\* and delete_entry calls of other clients, no step taken while the write lock
\* is active changes an entry, its index row or its tags: nothing is committed
\* between a successful lock and the successful unlock that follows.
C37_NoCommitWhileLocked ==
    [][ IsLocked => UNCHANGED <<entries, entries_fts, tags, entry_tags>> ]_vars

\* Both clients have returned from a create_entry call for the same slug that
\* reached DB.CreateEntry; the slug was free when each began and the two calls
\* overlapped.
RacedCreates(c, d) ==
    /\ c # d
    /\ txs[c].pc = "returned" /\ txs[d].pc = "returned"
    /\ txs[c].op = "create_entry" /\ txs[d].op = "create_entry"
    /\ txs[c].slug = txs[d].slug
    /\ txs[c].err \notin {"Locked", "Validation"} /\ txs[d].err \notin {"Locked", "Validation"}
    /\ txs[c].free /\ txs[d].free
    /\ txs[c].n \in txs[d].open \/ txs[d].n \in txs[c].open

\* The store has one entry of the slug of c's call, with an index row and a
\* zeroed stats row, all as a create of c's entry alone makes them, and the
\* tags of the entry are those of c's call.
HoldsEntryOf(c) ==
    LET alone == CreateEntry(EmptyTables, txs[c].args, now, "none").t IN
    /\ Cardinality(IdsOfSlug(Tables, txs[c].slug)) = 1
    /\ \A id \in IdsOfSlug(Tables, txs[c].slug) :
          /\ entries[id] = alone.entries[1]
          /\ id \in DOMAIN entries_fts /\ entries_fts[id] = alone.entries_fts[1]
          /\ id \in DOMAIN entry_stats /\ entry_stats[id] = ZeroStats
          /\ getTagsForEntry(Tables, id) = getTagsForEntry(alone, 1)

C39_UpdateCountsOnlyUpdates ==
    [][ (steps' # steps /\ last'.op = "update_entry" /\ last'.caller = "tool" /\ last'.err = "ok") =>
          LET id == last'.res.id IN
          /\ entry_stats'[id].updates = entry_stats[id].updates + 1
          /\ entry_stats'[id].reads = entry_stats[id].reads
          /\ entry_stats'[id].last_read_at = entry_stats[id].last_read_at
          /\ entry_stats'[id].searches = entry_stats[id].searches
          /\ entry_stats'[id].last_search_at = entry_stats[id].last_search_at ]_vars

\* C40: in every state the entries that have a usage-statistics row are
\* exactly the entries of the store (one row each, entry_id being the key of
\* entry_stats), and the updates counter of each is its version minus 1.
C40_OneStatsRowPerEntry ==
    /\ DOMAIN entry_stats = DOMAIN entries
    /\ \A id \in DOMAIN entries \cap DOMAIN entry_stats :
          entry_stats[id].updates = entries[id].version - 1

====
